---------------------------- MODULE Spec2Model ----------------------------
(***************************************************************************)
(* A state-machine model of the bndy serverless API: the request handlers  *)
(* of the venues, songs, issues, artists, memberships, users and auth      *)
(* lambdas over the DynamoDB tables they share.                            *)
(*                                                                         *)
(* Conventions.                                                            *)
(*  - A JavaScript value is a string: Undef and Null stand for undefined   *)
(*    and null, "0"/"false" for the number 0 and the boolean false, any    *)
(*    other string for itself; an ISO timestamp is the string of the       *)
(*    clock.  member_count and the times inside a token are integers,     *)
(*    profile_complete is a boolean.                                       *)
(*  - A DynamoDB item is a function from the names of the attributes it    *)
(*    has to their values; a table is a function from keys to items.       *)
(*  - A request is a record: its kind (the handler), its inputs, its       *)
(*    position pc, its local variables and its response.  reqs holds the   *)
(*    requests in progress, last the request answered most recently.  One  *)
(*    action is one run of handler code up to and including the next       *)
(*    awaited data-store call, which either succeeds or throws.            *)
(*  - Of the attributes that a handler treats alike, one stands for all:   *)
(*    the comments of each handler name the attributes left out.           *)
(*  - Routing is taken as given: a request of kind k is one that           *)
(*    exports.handler dispatched to the handler k.                         *)
(***************************************************************************)
EXTENDS Integers, Sequences, FiniteSets, TLC

VARIABLES
    clock,        \* Date.now(), in ms
    venues,       \* table bndy-venues, keyed by id
    songs,        \* table bndy-songs, keyed by id
    issues,       \* table bndy-issues, keyed by issue_id
    artists,      \* table bndy-artists, keyed by id
    memberships,  \* table bndy-artist-memberships, keyed by membership_id
    users,        \* table bndy-users, keyed by cognito_id
    stateStore,   \* the pending OAuth states of each process of the auth
                  \* lambda: instance -> (state -> timestamp)
    reqs,         \* the requests in progress
    last,         \* the request answered most recently
    nreq,         \* the number of requests received
    nextId,       \* the next fresh identifier (crypto.randomUUID)
    ticks,        \* the number of clock advances
    dbFailed,     \* history: some data-store call has thrown
    passed,       \* history: issued state -> callbacks that it let through
    jar,          \* history: the session tokens set as cookies
    issuedBy      \* history: issued state -> the instance that issued it

vars == <<clock, venues, songs, issues, artists, memberships, users,
          stateStore, reqs, last, nreq, nextId, ticks, dbFailed, passed, jar,
          issuedBy>>

\* what only the auth lambda changes
authState == <<stateStore, passed, jar, issuedBy>>

tables == <<venues, songs, issues, artists, memberships, users>>

----------------------------------------------------------------------------
(* Bounds of the model *)

MaxReq == 2      \* requests per behaviour
MaxId == 3       \* fresh identifiers per behaviour
MaxTicks == 2    \* clock advances per behaviour
MaxAuthReq == 3  \* requests per behaviour of the auth and users lambdas

----------------------------------------------------------------------------
(* JavaScript values *)

Undef == "undefined"
Null == "null"

\* the values JavaScript treats as false in a condition
Falsy(v) == v \in {Undef, Null, "", "0", "false"}

\* a || b
Or(a, b) == IF Falsy(a) THEN b ELSE a

----------------------------------------------------------------------------
(* DynamoDB DocumentClient.  A call is one step: it returns or changes    *)
(* what the last completed write left in the table.                       *)

NoItem == [x \in {} |-> Undef]

\* an attribute of an item literal: the DocumentClient drops undefined
Opt(k, v) == IF v = Undef THEN NoItem ELSE (k :> v)

\* result.Item.attr
Attr(item, a) == IF a \in DOMAIN item THEN item[a] ELSE Undef

\* put: the item replaces whatever the key held
TablePut(t, k, item) ==
    [x \in DOMAIN t \cup {k} |-> IF x = k THEN item ELSE t[x]]

\* delete: succeeds whether or not the key holds an item
TableDelete(t, k) == [x \in DOMAIN t \ {k} |-> t[x]]

\* update with a SET expression: the named attributes are assigned, the
\* others kept; an absent key gets a new item of the key and the assigned
\* attributes (an upsert)
TableUpdate(t, k, keyAttr, sets) ==
    TablePut(t, k, IF k \in DOMAIN t THEN sets @@ t[k]
                                     ELSE sets @@ (keyAttr :> k))

\* update with an ADD expression on a number: an absent attribute counts
\* as 0, an absent key gets a new item
TableAdd(t, k, keyAttr, attr, inc) ==
    TablePut(t, k,
        IF k \in DOMAIN t
        THEN (attr :> ((IF attr \in DOMAIN t[k] THEN t[k][attr] ELSE 0) + inc))
             @@ t[k]
        ELSE (attr :> inc) @@ (keyAttr :> k))

HasAttr(item, a, v) == a \in DOMAIN item /\ item[a] = v

\* an expression attribute value that is undefined makes the call throw
AllDefined(sets) == \A a \in DOMAIN sets : sets[a] # Undef

\* new Date().toISOString()
IsoNow == ToString(clock)

----------------------------------------------------------------------------
(* Session tokens and requireAuth *)

JWT_SECRET == "JWT_SECRET"

\* expiresIn: '7d', in seconds
SessionTTL == 604800

NoClaims == [userId |-> Undef, username |-> Undef, email |-> Undef,
             issuedAt |-> 0, iat |-> 0, exp |-> 0]

\* no token at all, and the empty string
NoToken == [form |-> "none", key |-> "", claims |-> NoClaims]
EmptyToken == [form |-> "empty", key |-> "", claims |-> NoClaims]
\* a string that is no JSON web token
GarbageToken == [form |-> "garbage", key |-> "", claims |-> NoClaims]

\* jwt.sign(sessionData, key, { expiresIn: '7d' }) at time now: the payload
\* is the session data with iat and exp, in seconds
JwtSign(data, key, now) ==
    [form |-> "jwt", key |-> key,
     claims |-> [userId |-> data.userId, username |-> data.username,
                 email |-> data.email, issuedAt |-> data.issuedAt,
                 iat |-> now \div 1000, exp |-> (now \div 1000) + SessionTTL]]

\* a verification that did not look at exp
JwtVerifiesUnexpiring(tok, key, now) ==
    /\ tok.form = "jwt"
    /\ tok.key = key

\* jwt.verify(token, key) at time now returns the payload: the token is
\* well formed, signed with key, and now is before its exp
JwtVerifies(tok, key, now) ==
    /\ tok.form = "jwt"
    /\ tok.key = key
    /\ (now \div 1000) < tok.claims.exp

\* An event's cookies are a sequence of [name, value]; fmt is "v2" when the
\* gateway passes them as the list event.cookies and "hdr" when it passes a
\* Cookie header.
SessionCookies(ev) == SelectSeq(ev.cookies, LAMBDA c : c.name = "bndy_session")

\* event.cookies.find(c => c.startsWith('bndy_session=')) takes the first
\* match; parseCookies(header).bndy_session keeps the last one assigned
SessionToken(ev) ==
    LET cs == SessionCookies(ev)
    IN  IF cs = <<>> THEN NoToken
        ELSE IF ev.fmt = "v2" THEN Head(cs).value
        ELSE cs[Len(cs)].value

\* a check that names a third reason, for a token that has expired
AuthResultNamingExpiry(tok, now, logsUserId) ==
    IF tok.form \in {"none", "empty"}
    THEN [error |-> "Not authenticated", user |-> NoClaims]
    ELSE IF JwtVerifies(tok, JWT_SECRET, now)
         THEN [error |-> "", user |-> tok.claims]
         ELSE IF JwtVerifiesUnexpiring(tok, JWT_SECRET, now)
         THEN [error |-> "Session expired", user |-> NoClaims]
         ELSE [error |-> "Invalid session", user |-> NoClaims]

\* the session check: no token or an empty one is 'Not authenticated',
\* a token jwt.verify rejects is 'Invalid session', and the claims of any
\* other are the user
AuthResult(tok, now, logsUserId) ==
    IF tok.form \in {"none", "empty"}
    THEN [error |-> "Not authenticated", user |-> NoClaims]
    ELSE IF /\ JwtVerifies(tok, JWT_SECRET, now)
            \* session.userId.substring(0, 8) throws inside the try
            /\ (logsUserId => tok.claims.userId # Undef)
         THEN [error |-> "", user |-> tok.claims]
         ELSE [error |-> "Invalid session", user |-> NoClaims]

\* requireAuth of the auth, memberships, issues and users lambdas
requireAuth(ev, now) == AuthResult(SessionToken(ev), now, TRUE)

\* requireAuth of the artists lambda, which does not log the user id
requireAuthArtists(ev, now) == AuthResult(SessionToken(ev), now, FALSE)

----------------------------------------------------------------------------
(* Requests *)

NoReq == [kind |-> "none", n |-> 0]

\* a parsed request body that JSON.parse rejects, or that is not an object
BadBody == [bad |-> TRUE]

\* a request as it arrives; authed records whether its event carries a
\* session token that requireAuth accepts at that time, existed whether
\* the handler found a record under id, pre and post the record before and
\* after the handler's last write to it, at the time of that write, t the
\* time of arrival
NewReq(kind, ev, id, body) ==
    [kind |-> kind, n |-> nreq + 1, ev |-> ev,
     authed |-> requireAuth(ev, clock).error = "",
     id |-> id, body |-> body, pc |-> "start",
     status |-> 0, error |-> "", lists |-> "",
     loc |-> NoItem, writes |-> 0, existed |-> "?",
     pre |-> NoItem, post |-> NoItem, at |-> "", t |-> clock]

\* createResponse(status, { error, [lists] })
Answer(r, status, error, lists) ==
    [r EXCEPT !.pc = "done", !.status = status, !.error = error,
              !.lists = lists]

\* the response after a write that replaced item pre by item post
Wrote(r, status, pre, post) ==
    [r EXCEPT !.pc = "done", !.status = status, !.writes = @ + 1,
              !.pre = pre, !.post = post, !.at = IsoNow]

ItemAt(t, k) == IF k \in DOMAIN t THEN t[k] ELSE NoItem

Existed(t, k) == IF k \in DOMAIN t THEN "yes" ELSE "no"

----------------------------------------------------------------------------
(* venues-lambda.  Of the venue's attributes, name stands for the ones      *)
(* copied from the body as they are (name, address), latitude and          *)
(* longitude for the ones with a default (also location_object,            *)
(* google_place_id, validated), phone for the ones only a create writes    *)
(* (also postcode, facilities, name_variants, ...).                        *)

\* the handlers of the venues and songs lambdas, which no session check
\* precedes: the frame of every one of their actions
CatalogFrame == UNCHANGED <<clock, ticks, issues, artists, memberships,
                            users, authState, reqs>>

\* POST /api/venues
handleCreateVenue(ev, body, ok) ==
    /\ nreq < MaxReq
    /\ nextId <= MaxId
    /\ LET r == NewReq("createVenue", ev, nextId, body)
           venue == Opt("name", body.name) @@
                    [id |-> nextId,
                     latitude |-> Or(body.latitude, "0"),
                     longitude |-> Or(body.longitude, "0"),
                     phone |-> Or(body.phone, ""),
                     created_at |-> IsoNow, updated_at |-> IsoNow]
       IN  IF body = BadBody
           THEN /\ last' = Answer(r, 500, "Internal server error", "")
                /\ UNCHANGED <<venues, nextId, dbFailed>>
           ELSE IF ok
           THEN /\ venues' = TablePut(venues, nextId, venue)
                /\ last' = Wrote(r, 201, NoItem, venue)
                /\ nextId' = nextId + 1
                /\ UNCHANGED dbFailed
           ELSE /\ last' = Answer(r, 500, "Internal server error", "")
                /\ dbFailed' = TRUE
                /\ UNCHANGED <<venues, nextId>>
    /\ nreq' = nreq + 1
    /\ UNCHANGED songs
    /\ CatalogFrame

\* PUT /api/venues/{id}
handleUpdateVenue(ev, id, body, ok) ==
    /\ nreq < MaxReq
    /\ LET r == [NewReq("updateVenue", ev, id, body)
                    EXCEPT !.existed = Existed(venues, id)]
           sets == [name |-> body.name,
                    latitude |-> Or(body.latitude, "0"),
                    longitude |-> Or(body.longitude, "0"),
                    updated_at |-> IsoNow]
       IN  IF body = BadBody
           THEN /\ last' = Answer(r, 500, "Internal server error", "")
                /\ UNCHANGED <<venues, dbFailed>>
           ELSE IF ok /\ AllDefined(sets)
           THEN /\ venues' = TableUpdate(venues, id, "id", sets)
                /\ last' = Wrote(r, 200, ItemAt(venues, id), venues'[id])
                /\ UNCHANGED dbFailed
           ELSE /\ last' = Answer(r, 500, "Internal server error", "")
                /\ dbFailed' = TRUE
                /\ UNCHANGED venues
    /\ nreq' = nreq + 1
    /\ UNCHANGED <<songs, nextId>>
    /\ CatalogFrame

\* DELETE /api/venues/{id}
handleDeleteVenue(ev, id, ok) ==
    /\ nreq < MaxReq
    /\ LET r == [NewReq("deleteVenue", ev, id, NoItem)
                    EXCEPT !.existed = Existed(venues, id)]
       IN  IF ok
           THEN /\ venues' = TableDelete(venues, id)
                /\ last' = Wrote(r, 204, ItemAt(venues, id), NoItem)
                /\ UNCHANGED dbFailed
           ELSE /\ last' = Answer(r, 500, "Internal server error", "")
                /\ dbFailed' = TRUE
                /\ UNCHANGED venues
    /\ nreq' = nreq + 1
    /\ UNCHANGED <<songs, nextId>>
    /\ CatalogFrame

\* a filter that one coordinate is enough for
validCoordinatesEither(venue) ==
    \/ ~Falsy(Attr(venue, "latitude"))
    \/ ~Falsy(Attr(venue, "longitude"))

\* venue.latitude && venue.longitude && venue.latitude !== 0 &&
\* venue.longitude !== 0
validCoordinates(venue) ==
    /\ ~Falsy(Attr(venue, "latitude"))
    /\ ~Falsy(Attr(venue, "longitude"))
    /\ Attr(venue, "latitude") # "0"
    /\ Attr(venue, "longitude") # "0"

\* an entry of the list of venues
formattedVenue(venue) ==
    [id |-> Attr(venue, "id"), name |-> Attr(venue, "name"),
     location |-> [lat |-> Attr(venue, "latitude"),
                   lng |-> Attr(venue, "longitude")]]

\* GET /api/venues: a scan of the table, filtered and formatted
handleGetAllVenues(ev, ok) ==
    /\ nreq < MaxReq
    /\ LET r == NewReq("getAllVenues", ev, 0, NoItem)
           validVenues == {k \in DOMAIN venues : validCoordinates(venues[k])}
       IN  IF ok
           THEN /\ last' = [Answer(r, 200, "", "") EXCEPT
                              !.loc = [venues |-> {formattedVenue(venues[k]) :
                                                     k \in validVenues}]]
                /\ UNCHANGED dbFailed
           ELSE /\ last' = Answer(r, 500, "Internal server error", "")
                /\ dbFailed' = TRUE
    /\ nreq' = nreq + 1
    /\ UNCHANGED <<venues, songs, nextId>>
    /\ CatalogFrame

----------------------------------------------------------------------------
(* songs-lambda.  title stands for itself, artistName for the attributes    *)
(* with a default (also duration, genre, releaseDate, album, the links,    *)
(* isFeatured, tags).                                                      *)

\* POST /api/songs
handleCreateSong(ev, body, ok) ==
    /\ nreq < MaxReq
    /\ nextId <= MaxId
    /\ LET r == NewReq("createSong", ev, nextId, body)
           song == Opt("title", body.title) @@
                   [id |-> nextId,
                    artistName |-> Or(body.artistName, ""),
                    createdAt |-> IsoNow, updatedAt |-> IsoNow]
       IN  IF body = BadBody
           THEN /\ last' = Answer(r, 500, "Internal server error", "")
                /\ UNCHANGED <<songs, nextId, dbFailed>>
           ELSE IF ok
           THEN /\ songs' = TablePut(songs, nextId, song)
                /\ last' = Wrote(r, 201, NoItem, song)
                /\ nextId' = nextId + 1
                /\ UNCHANGED dbFailed
           ELSE /\ last' = Answer(r, 500, "Internal server error", "")
                /\ dbFailed' = TRUE
                /\ UNCHANGED <<songs, nextId>>
    /\ nreq' = nreq + 1
    /\ UNCHANGED venues
    /\ CatalogFrame

\* PUT /api/songs/{id}
handleUpdateSong(ev, id, body, ok) ==
    /\ nreq < MaxReq
    /\ LET r == [NewReq("updateSong", ev, id, body)
                    EXCEPT !.existed = Existed(songs, id)]
           sets == [title |-> body.title,
                    artistName |-> Or(body.artistName, ""),
                    updatedAt |-> IsoNow]
       IN  IF body = BadBody
           THEN /\ last' = Answer(r, 500, "Internal server error", "")
                /\ UNCHANGED <<songs, dbFailed>>
           ELSE IF ok /\ AllDefined(sets)
           THEN /\ songs' = TableUpdate(songs, id, "id", sets)
                /\ last' = Wrote(r, 200, ItemAt(songs, id), songs'[id])
                /\ UNCHANGED dbFailed
           ELSE /\ last' = Answer(r, 500, "Internal server error", "")
                /\ dbFailed' = TRUE
                /\ UNCHANGED songs
    /\ nreq' = nreq + 1
    /\ UNCHANGED <<venues, nextId>>
    /\ CatalogFrame

\* DELETE /api/songs/{id}
handleDeleteSong(ev, id, ok) ==
    /\ nreq < MaxReq
    /\ LET r == [NewReq("deleteSong", ev, id, NoItem)
                    EXCEPT !.existed = Existed(songs, id)]
       IN  IF ok
           THEN /\ songs' = TableDelete(songs, id)
                /\ last' = Wrote(r, 204, ItemAt(songs, id), NoItem)
                /\ UNCHANGED dbFailed
           ELSE /\ last' = Answer(r, 500, "Internal server error", "")
                /\ dbFailed' = TRUE
                /\ UNCHANGED songs
    /\ nreq' = nreq + 1
    /\ UNCHANGED <<venues, nextId>>
    /\ CatalogFrame

----------------------------------------------------------------------------
(* issues-lambda.  location, which is handled as title is on an update and  *)
(* defaults on a create, is left out.                                      *)

\* an allow-list that lets an unknown type through
laxTypes == {"bug", "unfinished", "enhancement", "new", "bogus"}

validTypes == {"bug", "unfinished", "enhancement", "new"}
validPriorities == {"critical", "high", "medium", "low"}
validStatuses == {"new", "in-progress", "resolved", "wont-fix"}

IssuesFrame == UNCHANGED <<clock, ticks, venues, songs, artists, memberships,
                           users, authState>>

\* one part of an update expression, present when its condition holds
SetIf(c, k, v) == IF c THEN (k :> v) ELSE NoItem

\* POST /issues
handleCreateIssue(ev, body, ok) ==
    /\ nreq < MaxReq
    /\ nextId <= MaxId
    /\ LET r == NewReq("createIssue", ev, nextId, body)
           auth == requireAuth(ev, clock)
           issueItem == [issue_id |-> nextId,
                         title |-> body.title,
                         description |-> body.description,
                         type |-> body.type,
                         priority |-> Or(body.priority, "medium"),
                         status |-> "new",
                         screenshot_url |-> Or(body.screenshotUrl, Null),
                         reported_by |-> auth.user.userId,
                         created_at |-> IsoNow, updated_at |-> IsoNow]
       IN  IF auth.error # ""
           THEN /\ last' = Answer(r, 401, auth.error, "")
                /\ UNCHANGED <<issues, nextId, dbFailed>>
           ELSE IF body = BadBody
           THEN /\ last' = Answer(r, 500, "Internal server error", "")
                /\ UNCHANGED <<issues, nextId, dbFailed>>
           ELSE IF Falsy(body.title) \/ Falsy(body.description)
                      \/ Falsy(body.type)
           THEN /\ last' = Answer(r, 400, "Missing required fields", "required")
                /\ UNCHANGED <<issues, nextId, dbFailed>>
           ELSE IF body.type \notin validTypes
           THEN /\ last' = Answer(r, 400, "Invalid type", "validTypes")
                /\ UNCHANGED <<issues, nextId, dbFailed>>
           ELSE IF ~Falsy(body.priority) /\ body.priority \notin validPriorities
           THEN /\ last' = Answer(r, 400, "Invalid priority", "validPriorities")
                /\ UNCHANGED <<issues, nextId, dbFailed>>
           ELSE IF ok
           THEN /\ issues' = TablePut(issues, nextId, issueItem)
                /\ last' = Wrote(r, 201, NoItem, issueItem)
                /\ nextId' = nextId + 1
                /\ UNCHANGED dbFailed
           ELSE /\ last' = Answer(r, 500, "Internal server error", "")
                /\ dbFailed' = TRUE
                /\ UNCHANGED <<issues, nextId>>
    /\ nreq' = nreq + 1
    /\ UNCHANGED reqs
    /\ IssuesFrame

\* PUT /issues/{id} and DELETE /issues/{id}, up to the get of the existing
\* issue
IssueGet(kind, ev, id, body, ok) ==
    /\ nreq < MaxReq
    /\ LET r == NewReq(kind, ev, id, body)
           auth == requireAuth(ev, clock)
       IN  IF auth.error # ""
           THEN /\ last' = Answer(r, 401, auth.error, "")
                /\ UNCHANGED <<reqs, dbFailed>>
           ELSE IF body = BadBody
           THEN /\ last' = Answer(r, 500, "Internal server error", "")
                /\ UNCHANGED <<reqs, dbFailed>>
           ELSE IF ok
           THEN /\ reqs' = reqs \cup {[r EXCEPT !.pc = "got",
                                         !.existed = Existed(issues, id)]}
                /\ UNCHANGED <<last, dbFailed>>
           ELSE /\ last' = Answer(r, 500, "Internal server error", "")
                /\ dbFailed' = TRUE
                /\ UNCHANGED reqs
    /\ nreq' = nreq + 1
    /\ UNCHANGED <<issues, nextId>>
    /\ IssuesFrame

\* the update expression handleUpdateIssue builds from the body, without
\* the timestamp
IssueSets(b) ==
    SetIf(~Falsy(b.title), "title", b.title) @@
    SetIf(~Falsy(b.description), "description", b.description) @@
    SetIf(~Falsy(b.type), "type", b.type) @@
    SetIf(~Falsy(b.priority), "priority", b.priority) @@
    SetIf(~Falsy(b.status), "status", b.status) @@
    SetIf(b.screenshotUrl # Undef, "screenshot_url", b.screenshotUrl)

handleUpdateIssue_get(ev, id, body, ok) == IssueGet("updateIssue", ev, id, body, ok)

\* PUT /issues/{id}, from the result of the get
handleUpdateIssue_update(r, ok) ==
    /\ r \in reqs
    /\ r.kind = "updateIssue"
    /\ r.pc = "got"
    /\ reqs' = reqs \ {r}
    /\ LET b == r.body
           sets == IssueSets(b) @@ ("updated_at" :> IsoNow)
       IN  IF r.existed = "no"
           THEN /\ last' = Answer(r, 404, "Issue not found", "")
                /\ UNCHANGED <<issues, dbFailed>>
           ELSE IF ~Falsy(b.type) /\ b.type \notin validTypes
           THEN /\ last' = Answer(r, 400, "Invalid type", "validTypes")
                /\ UNCHANGED <<issues, dbFailed>>
           ELSE IF ~Falsy(b.priority) /\ b.priority \notin validPriorities
           THEN /\ last' = Answer(r, 400, "Invalid priority", "validPriorities")
                /\ UNCHANGED <<issues, dbFailed>>
           ELSE IF ~Falsy(b.status) /\ b.status \notin validStatuses
           THEN /\ last' = Answer(r, 400, "Invalid status", "validStatuses")
                /\ UNCHANGED <<issues, dbFailed>>
           ELSE IF IssueSets(b) = NoItem
           THEN /\ last' = Answer(r, 400, "No fields to update", "")
                /\ UNCHANGED <<issues, dbFailed>>
           ELSE IF ok
           THEN /\ issues' = TableUpdate(issues, r.id, "issue_id", sets)
                /\ last' = Wrote(r, 200, ItemAt(issues, r.id), issues'[r.id])
                /\ UNCHANGED dbFailed
           ELSE /\ last' = Answer(r, 500, "Internal server error", "")
                /\ dbFailed' = TRUE
                /\ UNCHANGED issues
    /\ UNCHANGED <<nreq, nextId>>
    /\ IssuesFrame

handleDeleteIssue_get(ev, id, ok) == IssueGet("deleteIssue", ev, id, NoItem, ok)

\* DELETE /issues/{id}, from the result of the get
handleDeleteIssue_delete(r, ok) ==
    /\ r \in reqs
    /\ r.kind = "deleteIssue"
    /\ r.pc = "got"
    /\ reqs' = reqs \ {r}
    /\ IF r.existed = "no"
       THEN /\ last' = Answer(r, 404, "Issue not found", "")
            /\ UNCHANGED <<issues, dbFailed>>
       ELSE IF ok
       THEN /\ issues' = TableDelete(issues, r.id)
            /\ last' = Wrote(r, 200, ItemAt(issues, r.id), NoItem)
            /\ UNCHANGED dbFailed
       ELSE /\ last' = Answer(r, 500, "Internal server error", "")
            /\ dbFailed' = TRUE
            /\ UNCHANGED issues
    /\ UNCHANGED <<nreq, nextId>>
    /\ IssuesFrame

----------------------------------------------------------------------------
(* artists-lambda.  name stands for itself, bio for the attributes with a   *)
(* default (also location, genres, isVerified, artist_type, the links).    *)
(* Of the owner membership, display_name stands for the overrides taken    *)
(* from the body (also instrument, icon, color).                           *)

MembersFrame == UNCHANGED <<clock, ticks, venues, songs, issues, users,
                            authState>>

\* POST /api/artists, up to the put of the artist record; the identifier
\* after the artist's is kept for the owner membership
handleCreateArtist_artist(ev, body, ok) ==
    /\ nreq < MaxReq
    /\ nextId + 1 <= MaxId
    /\ LET auth == requireAuthArtists(ev, clock)
           r == [NewReq("createArtist", ev, nextId, body)
                    EXCEPT !.authed = (auth.error = "")]
           artist == Opt("name", body.name) @@
                     Opt("owner_user_id", auth.user.userId) @@
                     [id |-> nextId,
                      bio |-> Or(body.bio, ""),
                      member_count |-> 1,
                      created_at |-> IsoNow, updated_at |-> IsoNow]
       IN  IF auth.error # ""
           THEN /\ last' = Answer(r, 401, auth.error, "")
                /\ UNCHANGED <<artists, reqs, nextId, dbFailed>>
           ELSE IF body = BadBody
           THEN /\ last' = Answer(r, 500, "Internal server error", "")
                /\ UNCHANGED <<artists, reqs, nextId, dbFailed>>
           ELSE IF ok
           THEN /\ artists' = TablePut(artists, nextId, artist)
                /\ reqs' = reqs \cup
                     {[r EXCEPT !.pc = "artistPut", !.writes = 1,
                                !.post = artist,
                                !.loc = [now |-> IsoNow,
                                         userId |-> auth.user.userId,
                                         membershipId |-> nextId + 1]]}
                /\ nextId' = nextId + 2
                /\ UNCHANGED <<last, dbFailed>>
           ELSE /\ last' = Answer(r, 500, "Internal server error", "")
                /\ dbFailed' = TRUE
                /\ UNCHANGED <<artists, reqs, nextId>>
    /\ nreq' = nreq + 1
    /\ UNCHANGED memberships
    /\ MembersFrame

\* what a handler that undid the artist put on a failed membership put
\* would do
MembershipPutCompensated(r) ==
    /\ last' = Answer(r, 500, "Internal server error", "")
    /\ dbFailed' = TRUE
    /\ artists' = TableDelete(artists, r.id)
    /\ UNCHANGED memberships

\* the put of the owner membership threw: handleCreateArtist logs and
\* rethrows, the lambda's handler answers 500, and nothing is undone
MembershipPutFails(r) ==
    /\ last' = Answer(r, 500, "Internal server error", "")
    /\ dbFailed' = TRUE
    /\ UNCHANGED <<artists, memberships>>

\* POST /api/artists, the put of the owner membership
handleCreateArtist_membership(r, ok) ==
    /\ r \in reqs
    /\ r.kind = "createArtist"
    /\ r.pc = "artistPut"
    /\ reqs' = reqs \ {r}
    /\ LET membership ==
               Opt("user_id", r.loc.userId) @@
               [membership_id |-> r.loc.membershipId,
                artist_id |-> r.id,
                role |-> "owner",
                display_name |-> Or(r.body.memberDisplayName, Null),
                avatar_url |-> Null,
                instrument |-> Null,
                status |-> "active",
                created_at |-> r.loc.now, updated_at |-> r.loc.now]
       IN  IF ok
           THEN /\ memberships' = TablePut(memberships, r.loc.membershipId,
                                            membership)
                /\ last' = Wrote(r, 201, NoItem, r.post)
                /\ UNCHANGED <<artists, dbFailed>>
           ELSE MembershipPutFails(r)
    /\ UNCHANGED <<nreq, nextId>>
    /\ MembersFrame

\* PUT /api/artists/{id}
handleUpdateArtist(ev, id, body, ok) ==
    /\ nreq < MaxReq
    /\ LET r == [NewReq("updateArtist", ev, id, body)
                    EXCEPT !.existed = Existed(artists, id)]
           sets == [name |-> body.name,
                    bio |-> Or(body.bio, ""),
                    updated_at |-> IsoNow]
       IN  IF body = BadBody
           THEN /\ last' = Answer(r, 500, "Internal server error", "")
                /\ UNCHANGED <<artists, dbFailed>>
           ELSE IF ok /\ AllDefined(sets)
           THEN /\ artists' = TableUpdate(artists, id, "id", sets)
                /\ last' = Wrote(r, 200, ItemAt(artists, id), artists'[id])
                /\ UNCHANGED dbFailed
           ELSE /\ last' = Answer(r, 500, "Internal server error", "")
                /\ dbFailed' = TRUE
                /\ UNCHANGED artists
    /\ nreq' = nreq + 1
    /\ UNCHANGED <<memberships, reqs, nextId>>
    /\ MembersFrame

\* a delete that takes the artist's memberships with it
handleDeleteArtistCascading(ev, id, ok) ==
    /\ nreq < MaxReq
    /\ LET r == [NewReq("deleteArtist", ev, id, NoItem)
                    EXCEPT !.existed = Existed(artists, id)]
       IN  IF ok
           THEN /\ artists' = TableDelete(artists, id)
                /\ memberships' =
                       [k \in {j \in DOMAIN memberships :
                                  ~HasAttr(memberships[j], "artist_id", id)}
                          |-> memberships[k]]
                /\ last' = Wrote(r, 204, ItemAt(artists, id), NoItem)
                /\ UNCHANGED dbFailed
           ELSE /\ last' = Answer(r, 500, "Internal server error", "")
                /\ dbFailed' = TRUE
                /\ UNCHANGED <<artists, memberships>>
    /\ nreq' = nreq + 1
    /\ UNCHANGED <<reqs, nextId>>
    /\ MembersFrame

\* DELETE /api/artists/{id}
handleDeleteArtist(ev, id, ok) ==
    /\ nreq < MaxReq
    /\ LET r == [NewReq("deleteArtist", ev, id, NoItem)
                    EXCEPT !.existed = Existed(artists, id)]
       IN  IF ok
           THEN /\ artists' = TableDelete(artists, id)
                /\ last' = Wrote(r, 204, ItemAt(artists, id), NoItem)
                /\ UNCHANGED dbFailed
           ELSE /\ last' = Answer(r, 500, "Internal server error", "")
                /\ dbFailed' = TRUE
                /\ UNCHANGED artists
    /\ nreq' = nreq + 1
    /\ UNCHANGED <<memberships, reqs, nextId>>
    /\ MembersFrame

----------------------------------------------------------------------------
(* memberships-lambda.  Of the membership's attributes, display_name and    *)
(* instrument stand for the profile overrides (also avatar_url, bio), role *)
(* for the attributes copied from the body (also membership_type, icon,    *)
(* color, permissions).                                                    *)

\* a request in progress moves on to position pc
Goto(r, pc) == [r EXCEPT !.pc = pc]

\* a data-store call of request r threw: every handler's catch answers 500
Throw(r) ==
    /\ reqs' = reqs \ {r}
    /\ last' = Answer(r, 500, "Internal server error", "")
    /\ dbFailed' = TRUE

\* POST /api/artists/{artistId}/members, up to the get of the artist
handleAddMember_artist(ev, artistId, body, ok) ==
    /\ nreq < MaxReq
    /\ LET r == NewReq("addMember", ev, artistId, body)
           auth == requireAuth(ev, clock)
       IN  IF auth.error # ""
           THEN /\ last' = Answer(r, 401, auth.error, "")
                /\ UNCHANGED <<reqs, dbFailed>>
           ELSE IF body = BadBody
           THEN /\ last' = Answer(r, 500, "Internal server error", "")
                /\ UNCHANGED <<reqs, dbFailed>>
           ELSE IF ok
           THEN /\ reqs' = reqs \cup
                     {[r EXCEPT !.pc = "gotArtist",
                                !.existed = Existed(artists, artistId),
                                !.loc = [invitedBy |-> auth.user.userId]]}
                /\ UNCHANGED <<last, dbFailed>>
           ELSE /\ last' = Answer(r, 500, "Internal server error", "")
                /\ dbFailed' = TRUE
                /\ UNCHANGED reqs
    /\ nreq' = nreq + 1
    /\ UNCHANGED <<artists, memberships, nextId>>
    /\ MembersFrame

\* the memberships of the artist whose user_id is userId
ExistingMemberships(artistId, userId) ==
    {k \in DOMAIN memberships :
        /\ HasAttr(memberships[k], "artist_id", artistId)
        /\ HasAttr(memberships[k], "user_id", userId)}

\* handleAddMember, the query for an existing membership
handleAddMember_query(r, ok) ==
    /\ r \in reqs
    /\ r.kind = "addMember"
    /\ r.pc = "gotArtist"
    /\ IF r.existed = "no"
       THEN /\ reqs' = reqs \ {r}
            /\ last' = Answer(r, 404, "Artist not found", "")
            /\ UNCHANGED dbFailed
       ELSE IF ok /\ r.body.userId # Undef
       THEN /\ reqs' = (reqs \ {r}) \cup
                 {[Goto(r, "queried") EXCEPT
                     !.loc = [invitedBy |-> r.loc.invitedBy,
                              dup |-> ExistingMemberships(r.id, r.body.userId)
                                        # {}]]}
            /\ UNCHANGED <<last, dbFailed>>
       ELSE Throw(r)
    /\ UNCHANGED <<artists, memberships, nreq, nextId>>
    /\ MembersFrame

\* handleAddMember, the put of the membership
handleAddMember_put(r, ok) ==
    /\ r \in reqs
    /\ r.kind = "addMember"
    /\ r.pc = "queried"
    /\ LET membership ==
               [membership_id |-> nextId,
                user_id |-> r.body.userId,
                artist_id |-> r.id,
                role |-> IF r.body.role = Undef THEN "member" ELSE r.body.role,
                display_name |-> IF r.body.displayName = Undef THEN Null
                                 ELSE r.body.displayName,
                avatar_url |-> Null,
                instrument |-> IF r.body.instrument = Undef THEN Null
                               ELSE r.body.instrument,
                invited_by_user_id |-> r.loc.invitedBy,
                status |-> "active",
                created_at |-> IsoNow, updated_at |-> IsoNow]
       IN  IF r.loc.dup
           THEN /\ reqs' = reqs \ {r}
                /\ last' = Answer(r, 400,
                                  "User is already a member of this artist", "")
                /\ UNCHANGED <<memberships, nextId, dbFailed>>
           ELSE IF ok
           THEN /\ nextId <= MaxId
                /\ memberships' = TablePut(memberships, nextId, membership)
                /\ reqs' = (reqs \ {r}) \cup
                     {[Goto(r, "put") EXCEPT !.writes = @ + 1,
                                             !.post = membership]}
                /\ nextId' = nextId + 1
                /\ UNCHANGED <<last, dbFailed>>
           ELSE /\ Throw(r)
                /\ UNCHANGED <<memberships, nextId>>
    /\ UNCHANGED <<artists, nreq>>
    /\ MembersFrame

\* handleAddMember, the update of the artist's member_count
handleAddMember_count(r, ok) ==
    /\ r \in reqs
    /\ r.kind = "addMember"
    /\ r.pc = "put"
    /\ IF ok
       THEN /\ artists' = TableAdd(artists, r.id, "id", "member_count", 1)
            /\ reqs' = (reqs \ {r}) \cup
                 {[Goto(r, "counted") EXCEPT !.writes = @ + 1]}
            /\ UNCHANGED <<last, dbFailed>>
       ELSE /\ Throw(r)
            /\ UNCHANGED artists
    /\ UNCHANGED <<memberships, nreq, nextId>>
    /\ MembersFrame

\* resolveMembershipProfile, given the user record it read (or {}): the
\* fields it adds to the membership
resolveMembershipProfile(membership, userProfile) ==
    [resolved_display_name |->
         Or(Or(Attr(membership, "display_name"),
               Attr(userProfile, "display_name")),
            Attr(userProfile, "username")),
     resolved_avatar_url |->
         Or(Or(Attr(membership, "avatar_url"), Attr(userProfile, "avatar_url")),
            Attr(userProfile, "oauth_profile_picture")),
     resolved_instrument |->
         Or(Or(Attr(membership, "instrument"), Attr(userProfile, "instrument")),
            Null),
     has_custom_display_name |->
         Attr(membership, "display_name") \notin {Null, Undef},
     has_custom_avatar |-> Attr(membership, "avatar_url") \notin {Null, Undef},
     has_custom_instrument |->
         Attr(membership, "instrument") \notin {Null, Undef}]

\* the last step of handleAddMember and handleUpdateMembership: the user
\* record is read, the membership resolved against it and returned
Resolve(r, pc, userId, status, ok) ==
    /\ r \in reqs
    /\ r.pc = pc
    /\ IF ok /\ userId # Undef
       THEN /\ reqs' = reqs \ {r}
            /\ last' = [r EXCEPT !.pc = "done", !.status = status,
                          !.loc = resolveMembershipProfile(
                                      r.post, ItemAt(users, userId))]
            /\ UNCHANGED dbFailed
       ELSE Throw(r)
    /\ UNCHANGED <<artists, memberships, nreq, nextId>>
    /\ MembersFrame

\* handleAddMember, the resolution of the new membership's profile
handleAddMember_resolve(r, ok) ==
    /\ r.kind = "addMember"
    /\ Resolve(r, "counted", r.body.userId, 201, ok)

\* PUT /api/memberships/{membershipId}, up to the get of the membership
handleUpdateMembership_get(ev, membershipId, body, ok) ==
    /\ nreq < MaxReq
    /\ LET r == NewReq("updateMembership", ev, membershipId, body)
           auth == requireAuth(ev, clock)
       IN  IF auth.error # ""
           THEN /\ last' = Answer(r, 401, auth.error, "")
                /\ UNCHANGED <<reqs, dbFailed>>
           ELSE IF body = BadBody
           THEN /\ last' = Answer(r, 500, "Internal server error", "")
                /\ UNCHANGED <<reqs, dbFailed>>
           ELSE IF ok
           THEN /\ reqs' = reqs \cup
                     {[r EXCEPT !.pc = "got",
                                !.existed = Existed(memberships, membershipId)]}
                /\ UNCHANGED <<last, dbFailed>>
           ELSE /\ last' = Answer(r, 500, "Internal server error", "")
                /\ dbFailed' = TRUE
                /\ UNCHANGED reqs
    /\ nreq' = nreq + 1
    /\ UNCHANGED <<artists, memberships, nextId>>
    /\ MembersFrame

\* an update expression that also stored the resolved display name
MembershipSetsPersisting(b) ==
    SetIf(b.role # Undef, "role", b.role) @@
    SetIf(b.displayName # Undef, "display_name", b.displayName) @@
    SetIf(b.displayName # Undef, "resolved_display_name", b.displayName) @@
    SetIf(b.instrument # Undef, "instrument", b.instrument) @@
    SetIf(b.status # Undef, "status", b.status)

\* the update expression handleUpdateMembership builds from the body,
\* without the timestamp
MembershipSets(b) ==
    SetIf(b.role # Undef, "role", b.role) @@
    SetIf(b.displayName # Undef, "display_name", b.displayName) @@
    SetIf(b.instrument # Undef, "instrument", b.instrument) @@
    SetIf(b.status # Undef, "status", b.status)

\* handleUpdateMembership, the update of the membership
handleUpdateMembership_update(r, ok) ==
    /\ r \in reqs
    /\ r.kind = "updateMembership"
    /\ r.pc = "got"
    /\ LET sets == MembershipSets(r.body) @@ ("updated_at" :> IsoNow)
       IN  IF r.existed = "no"
           THEN /\ reqs' = reqs \ {r}
                /\ last' = Answer(r, 404, "Membership not found", "")
                /\ UNCHANGED <<memberships, dbFailed>>
           ELSE IF ok
           THEN /\ memberships' =
                     TableUpdate(memberships, r.id, "membership_id", sets)
                /\ reqs' = (reqs \ {r}) \cup
                     {[Goto(r, "updated") EXCEPT
                         !.writes = @ + 1,
                         !.pre = ItemAt(memberships, r.id),
                         !.post = memberships'[r.id],
                         !.at = IsoNow]}
                /\ UNCHANGED <<last, dbFailed>>
           ELSE /\ Throw(r)
                /\ UNCHANGED memberships
    /\ UNCHANGED <<artists, nreq, nextId>>
    /\ MembersFrame

\* handleUpdateMembership, the resolution of the updated membership
handleUpdateMembership_resolve(r, ok) ==
    /\ r.kind = "updateMembership"
    /\ Resolve(r, "updated", Attr(r.post, "user_id"), 200, ok)

\* DELETE /api/memberships/{membershipId}, up to the get of the membership
handleDeleteMembership_get(ev, membershipId, ok) ==
    /\ nreq < MaxReq
    /\ LET r == NewReq("deleteMembership", ev, membershipId, NoItem)
           auth == requireAuth(ev, clock)
       IN  IF auth.error # ""
           THEN /\ last' = Answer(r, 401, auth.error, "")
                /\ UNCHANGED <<reqs, dbFailed>>
           ELSE IF ok
           THEN /\ reqs' = reqs \cup
                     {[r EXCEPT !.pc = "got",
                                !.existed = Existed(memberships, membershipId),
                                !.pre = ItemAt(memberships, membershipId)]}
                /\ UNCHANGED <<last, dbFailed>>
           ELSE /\ last' = Answer(r, 500, "Internal server error", "")
                /\ dbFailed' = TRUE
                /\ UNCHANGED reqs
    /\ nreq' = nreq + 1
    /\ UNCHANGED <<artists, memberships, nextId>>
    /\ MembersFrame

\* handleDeleteMembership, the delete of the membership
handleDeleteMembership_delete(r, ok) ==
    /\ r \in reqs
    /\ r.kind = "deleteMembership"
    /\ r.pc = "got"
    /\ IF r.existed = "no"
       THEN /\ reqs' = reqs \ {r}
            /\ last' = Answer(r, 404, "Membership not found", "")
            /\ UNCHANGED <<memberships, dbFailed>>
       ELSE IF ok
       THEN /\ memberships' = TableDelete(memberships, r.id)
            /\ reqs' = (reqs \ {r}) \cup
                 {[Goto(r, "deleted") EXCEPT !.writes = @ + 1]}
            /\ UNCHANGED <<last, dbFailed>>
       ELSE /\ Throw(r)
            /\ UNCHANGED memberships
    /\ UNCHANGED <<artists, nreq, nextId>>
    /\ MembersFrame

\* handleDeleteMembership, the update of the member_count of the artist
\* that the membership read names
handleDeleteMembership_count(r, ok) ==
    /\ r \in reqs
    /\ r.kind = "deleteMembership"
    /\ r.pc = "deleted"
    /\ IF ok /\ "artist_id" \in DOMAIN r.pre
       THEN /\ artists' = TableAdd(artists, r.pre.artist_id, "id",
                                   "member_count", -1)
            /\ reqs' = reqs \ {r}
            /\ last' = [Goto(r, "done") EXCEPT !.status = 200,
                                               !.writes = @ + 1]
            /\ UNCHANGED dbFailed
       ELSE /\ Throw(r)
            /\ UNCHANGED artists
    /\ UNCHANGED <<memberships, nreq, nextId>>
    /\ MembersFrame

----------------------------------------------------------------------------
(* auth-lambda.  A callback's query is [code, state, error]; the identity  *)
(* token the provider returns is [sub, email, username, picture,           *)
(* given_name, family_name], or NoIdToken when the exchange fails or       *)
(* returns no identity token.                                              *)

AuthFrame == UNCHANGED <<clock, ticks, venues, songs, issues, artists,
                         memberships>>

\* a pending state older than this many ms is removed by the cleanup
StateTTL == 300000

\* generateState(): 32 random bytes, a value never issued before
generateState == ToString(nextId)

\* cleanupExpiredStates() at time now
cleanupExpiredStates(store, now) ==
    [k \in {j \in DOMAIN store : ~(now - store[j].timestamp > StateTTL)}
        |-> store[k]]

\* the instances of the auth lambda
Instances == DOMAIN stateStore

\* the states pending in some instance
Pending == UNION {DOMAIN stateStore[i] : i \in Instances}

\* GET /auth/google, handled by instance i
handleGoogleAuth(ev, i) ==
    /\ nreq < MaxAuthReq
    /\ nextId <= MaxId
    /\ LET state == generateState
           r == NewReq("googleAuth", ev, state, NoItem)
       IN  /\ stateStore' =
                  [stateStore EXCEPT
                     ![i] = cleanupExpiredStates(
                                (state :> [timestamp |-> clock]) @@ @, clock)]
           /\ passed' = (state :> 0) @@ passed
           /\ issuedBy' = (state :> i) @@ issuedBy
           /\ last' = [Answer(r, 302, "", "") EXCEPT
                         !.loc = [state |-> state, instance |-> i]]
    /\ nextId' = nextId + 1
    /\ nreq' = nreq + 1
    /\ UNCHANGED <<users, reqs, dbFailed, jar>>
    /\ AuthFrame

\* a JSON error answer in place of the redirect
JsonError(r, error) == Answer(r, 500, error, "")

\* the redirect to the login page with an error
LoginError(r, error) == Answer(r, 302, error, "")

\* a callback that left the state in the store
KeepState(store, state) == store

\* stateStore.delete(state)
ConsumeState(store, state) == TableDelete(store, state)

\* a callback served from one pending-state store that every instance
\* shares
handleOAuthCallback_shared(ev, q, i) ==
    /\ nreq < MaxAuthReq
    /\ LET r == [NewReq("callback", ev, q.state, q)
                    EXCEPT !.loc = [instance |-> i]]
       IN  IF Falsy(q.state) \/ q.state \notin Pending
           THEN /\ last' = LoginError(r, "invalid_state")
                /\ UNCHANGED <<stateStore, passed, reqs>>
           ELSE /\ stateStore' = [j \in Instances |->
                                     ConsumeState(stateStore[j], q.state)]
                /\ passed' = [passed EXCEPT ![q.state] = @ + 1]
                /\ IF ~Falsy(q.error)
                   THEN /\ last' = LoginError(r, q.error)
                        /\ UNCHANGED reqs
                   ELSE IF Falsy(q.code)
                   THEN /\ last' = LoginError(r, "no_code")
                        /\ UNCHANGED reqs
                   ELSE /\ reqs' = reqs \cup {Goto(r, "exchange")}
                        /\ UNCHANGED last
    /\ nreq' = nreq + 1
    /\ UNCHANGED <<users, nextId, dbFailed, jar, issuedBy>>
    /\ AuthFrame

\* a callback that looks for the code before it looks at the state
handleOAuthCallback_codeFirst(ev, q, i) ==
    /\ nreq < MaxAuthReq
    /\ LET r == [NewReq("callback", ev, q.state, q)
                    EXCEPT !.loc = [instance |-> i]]
       IN  IF Falsy(q.code)
           THEN /\ last' = LoginError(r, "no_code")
                /\ UNCHANGED <<stateStore, passed, reqs>>
           ELSE IF Falsy(q.state) \/ q.state \notin DOMAIN stateStore[i]
           THEN /\ last' = LoginError(r, "invalid_state")
                /\ UNCHANGED <<stateStore, passed, reqs>>
           ELSE /\ stateStore' = [stateStore EXCEPT
                                    ![i] = ConsumeState(@, q.state)]
                /\ passed' = [passed EXCEPT ![q.state] = @ + 1]
                /\ IF ~Falsy(q.error)
                   THEN /\ last' = LoginError(r, q.error)
                        /\ UNCHANGED reqs
                   ELSE /\ reqs' = reqs \cup {Goto(r, "exchange")}
                        /\ UNCHANGED last
    /\ nreq' = nreq + 1
    /\ UNCHANGED <<users, nextId, dbFailed, jar, issuedBy>>
    /\ AuthFrame

\* GET /auth/callback, up to the request to the provider's token endpoint:
\* the state check, the removal of the state, the checks of error and
\* code, by instance i
handleOAuthCallback_state(ev, q, i) ==
    /\ nreq < MaxAuthReq
    /\ LET r == [NewReq("callback", ev, q.state, q)
                    EXCEPT !.loc = [instance |-> i]]
       IN  IF Falsy(q.state) \/ q.state \notin DOMAIN stateStore[i]
           THEN /\ last' = LoginError(r, "invalid_state")
                /\ UNCHANGED <<stateStore, passed, reqs>>
           ELSE /\ stateStore' = [stateStore EXCEPT
                                    ![i] = ConsumeState(@, q.state)]
                /\ passed' = [passed EXCEPT ![q.state] = @ + 1]
                /\ IF ~Falsy(q.error)
                   THEN /\ last' = LoginError(r, q.error)
                        /\ UNCHANGED reqs
                   ELSE IF Falsy(q.code)
                   THEN /\ last' = LoginError(r, "no_code")
                        /\ UNCHANGED reqs
                   ELSE /\ reqs' = reqs \cup {Goto(r, "exchange")}
                        /\ UNCHANGED last
    /\ nreq' = nreq + 1
    /\ UNCHANGED <<users, nextId, dbFailed, jar, issuedBy>>
    /\ AuthFrame

NoIdToken == [sub |-> Undef]

\* handleOAuthCallback from the provider's answer up to the get of
\* createOrUpdateUser; a failed exchange, an answer without an identity
\* token and an identity token without sub all throw
handleOAuthCallback_exchange(r, idToken, ok) ==
    /\ r \in reqs
    /\ r.kind = "callback"
    /\ r.pc = "exchange"
    /\ IF idToken.sub = Undef
       THEN /\ reqs' = reqs \ {r}
            /\ last' = LoginError(r, "token_exchange_failed")
            /\ UNCHANGED dbFailed
       ELSE IF ok
       THEN /\ reqs' = (reqs \ {r}) \cup
                 {[Goto(r, "gotUser") EXCEPT
                     !.existed = Existed(users, idToken.sub),
                     !.loc = [idToken |-> idToken,
                              read |-> ItemAt(users, idToken.sub)]]}
            /\ UNCHANGED <<last, dbFailed>>
       ELSE /\ reqs' = reqs \ {r}
            /\ last' = LoginError(r, "token_exchange_failed")
            /\ dbFailed' = TRUE
    /\ UNCHANGED <<users, stateStore, passed, jar, nreq, nextId, issuedBy>>
    /\ AuthFrame

\* createOrUpdateUser for an existing user: the update expression, built
\* from the record read and the identity token
ExistingUserSets(item, idToken) ==
    LET noAvatar == Falsy(Attr(item, "avatar_url"))
        takePicture ==
            /\ ~Falsy(idToken.picture)
            /\ \/ noAvatar
               \/ Attr(item, "avatar_url") = Attr(item, "oauth_profile_picture")
    IN  [email |-> idToken.email, username |-> idToken.username,
         updated_at |-> IsoNow] @@
        SetIf(takePicture, "oauth_profile_picture", idToken.picture) @@
        SetIf(takePicture /\ noAvatar, "avatar_url", idToken.picture) @@
        SetIf(~Falsy(idToken.given_name) /\ Falsy(Attr(item, "first_name")),
              "first_name", idToken.given_name) @@
        SetIf(~Falsy(idToken.family_name) /\ Falsy(Attr(item, "last_name")),
              "last_name", idToken.family_name)

\* createOrUpdateUser for a new user: the item put
NewUserItem(idToken, userId, now) ==
    Opt("email", idToken.email) @@ Opt("username", idToken.username) @@
    [cognito_id |-> idToken.sub,
     user_id |-> userId,
     first_name |-> Or(idToken.given_name, Null),
     last_name |-> Or(idToken.family_name, Null),
     display_name |-> Null,
     avatar_url |-> Or(idToken.picture, Null),
     oauth_profile_picture |-> Or(idToken.picture, Null),
     instrument |-> Null,
     profile_complete |-> FALSE,
     created_at |-> now, updated_at |-> now]

\* a callback that went on to the session without writing the user
createOrUpdateUser_skipped(r, ok) ==
    /\ r \in reqs
    /\ r.kind = "callback"
    /\ r.pc = "gotUser"
    /\ reqs' = (reqs \ {r}) \cup {Goto(r, "upserted")}
    /\ UNCHANGED <<users, last, nextId, dbFailed, stateStore, passed, jar,
                   nreq, issuedBy>>
    /\ AuthFrame

\* createOrUpdateUser, from the result of its get up to its update or put
createOrUpdateUser_write(r, ok) ==
    /\ r \in reqs
    /\ r.kind = "callback"
    /\ r.pc = "gotUser"
    /\ LET idToken == r.loc.idToken
           sets == ExistingUserSets(r.loc.read, idToken)
           item == NewUserItem(idToken, nextId, IsoNow)
           written(pre, post) ==
               (reqs \ {r}) \cup
               {[Goto(r, "upserted") EXCEPT !.writes = @ + 1, !.pre = pre,
                                            !.post = post, !.at = IsoNow]}
       IN  IF r.existed = "yes"
           THEN IF ok /\ AllDefined(sets)
                THEN /\ users' = TableUpdate(users, idToken.sub, "cognito_id",
                                             sets)
                     /\ reqs' = written(ItemAt(users, idToken.sub),
                                        users'[idToken.sub])
                     /\ UNCHANGED <<last, nextId, dbFailed>>
                ELSE /\ reqs' = reqs \ {r}
                     /\ last' = LoginError(r, "token_exchange_failed")
                     /\ dbFailed' = TRUE
                     /\ UNCHANGED <<users, nextId>>
           ELSE IF ok
                THEN /\ nextId <= MaxId
                     /\ users' = TablePut(users, idToken.sub, item)
                     /\ reqs' = written(ItemAt(users, idToken.sub), item)
                     /\ nextId' = nextId + 1
                     /\ UNCHANGED <<last, dbFailed>>
                ELSE /\ reqs' = reqs \ {r}
                     /\ last' = LoginError(r, "token_exchange_failed")
                     /\ dbFailed' = TRUE
                     /\ UNCHANGED <<users, nextId>>
    /\ UNCHANGED <<stateStore, passed, jar, nreq, issuedBy>>
    /\ AuthFrame

\* handleOAuthCallback after createOrUpdateUser: the session token is
\* signed and set as the bndy_session cookie of the 200 response
handleOAuthCallback_session(r) ==
    /\ r \in reqs
    /\ r.kind = "callback"
    /\ r.pc = "upserted"
    /\ LET idToken == r.loc.idToken
           sessionData == [userId |-> idToken.sub,
                           username |-> idToken.username,
                           email |-> idToken.email,
                           issuedAt |-> clock]
           sessionToken == JwtSign(sessionData, JWT_SECRET, clock)
       IN  /\ reqs' = reqs \ {r}
           /\ last' = [Goto(r, "done") EXCEPT
                         !.status = 200,
                         !.loc = [idToken |-> idToken,
                                  read |-> r.loc.read,
                                  cookie |-> sessionToken]]
           /\ jar' = jar \cup {sessionToken}
    /\ UNCHANGED <<users, stateStore, passed, nreq, nextId, dbFailed, issuedBy>>
    /\ AuthFrame

\* GET /api/me, up to the get of the caller's user record
handleGetMe_get(ev, ok) ==
    /\ nreq < MaxAuthReq
    /\ LET auth == requireAuth(ev, clock)
           r == NewReq("getMe", ev, auth.user.userId, NoItem)
       IN  IF auth.error # ""
           THEN /\ last' = Answer(r, 401, auth.error, "")
                /\ UNCHANGED <<reqs, dbFailed>>
           ELSE IF ok
           THEN /\ reqs' = reqs \cup
                     {[r EXCEPT !.pc = "got",
                                !.existed = Existed(users, r.id),
                                !.loc = [user |-> auth.user,
                                         dbUser |-> ItemAt(users, r.id)]]}
                /\ UNCHANGED <<last, dbFailed>>
           ELSE /\ last' = Answer(r, 500, "Internal server error", "")
                /\ dbFailed' = TRUE
                /\ UNCHANGED reqs
    /\ nreq' = nreq + 1
    /\ UNCHANGED <<users, stateStore, passed, jar, nextId, issuedBy>>
    /\ AuthFrame

\* the membership entry handleGetMe builds from a membership of the caller
\* and the caller's user record: the profile is resolved inline
getMeMembership(membership, dbUser) ==
    [membershipId |-> Attr(membership, "membership_id"),
     displayName |->
         Or(Or(Attr(membership, "display_name"), Attr(dbUser, "display_name")),
            Attr(dbUser, "username")),
     avatarUrl |->
         Or(Or(Attr(membership, "avatar_url"), Attr(dbUser, "avatar_url")),
            Attr(dbUser, "oauth_profile_picture")),
     instrument |->
         Or(Or(Attr(membership, "instrument"), Attr(dbUser, "instrument")),
            Null),
     hasCustomDisplayName |->
         Attr(membership, "display_name") \notin {Null, Undef},
     hasCustomAvatar |-> Attr(membership, "avatar_url") \notin {Null, Undef},
     hasCustomInstrument |->
         Attr(membership, "instrument") \notin {Null, Undef}]

\* the memberships whose user_id is userId (the index user_id-index)
MembershipsOfUser(userId) ==
    {memberships[k] : k \in {j \in DOMAIN memberships :
                                HasAttr(memberships[j], "user_id", userId)}}

\* GET /api/me, from the result of the get: the caller's memberships are
\* queried (and their artists fetched, which are left out); a failure of
\* either call is caught and logged, and leaves the answer a 200 with no
\* memberships
handleGetMe_respond(r, ok) ==
    /\ r \in reqs
    /\ r.kind = "getMe"
    /\ r.pc = "got"
    /\ reqs' = reqs \ {r}
    /\ IF r.existed = "no"
       THEN /\ last' = Answer(r, 404, "User not found", "")
            /\ UNCHANGED dbFailed
       ELSE IF ok
       THEN /\ last' = [Goto(r, "done") EXCEPT
                         !.status = 200,
                         !.loc = [user |-> r.loc.user,
                                  dbUser |-> r.loc.dbUser,
                                  source |-> MembershipsOfUser(r.loc.user.userId),
                                  artists |->
                                      {getMeMembership(m, r.loc.dbUser) :
                                          m \in MembershipsOfUser(
                                                    r.loc.user.userId)}]]
            /\ UNCHANGED dbFailed
       ELSE /\ last' = [Goto(r, "done") EXCEPT
                         !.status = 200,
                         !.loc = [user |-> r.loc.user,
                                  dbUser |-> r.loc.dbUser,
                                  source |-> {},
                                  artists |-> {}]]
            /\ dbFailed' = TRUE
    /\ UNCHANGED <<users, stateStore, passed, jar, nreq, nextId, issuedBy>>
    /\ AuthFrame

\* the cookie of the logout response: bndy_session=; Max-Age=0
clearCookie == [name |-> "bndy_session", value |-> EmptyToken, maxAge |-> 0]

\* a logout that also empties the pending-state maps
handleLogoutClearing(ev) ==
    /\ nreq < MaxAuthReq
    /\ last' = [Answer(NewReq("logout", ev, 0, NoItem), 200, "", "")
                  EXCEPT !.loc = [setCookie |-> clearCookie]]
    /\ stateStore' = [i \in Instances |-> NoItem]
    /\ nreq' = nreq + 1
    /\ UNCHANGED <<users, passed, jar, issuedBy, reqs, nextId, dbFailed>>
    /\ AuthFrame

\* POST /auth/logout: the answer clears the cookie; no session check, no
\* data-store call
handleLogout(ev) ==
    /\ nreq < MaxAuthReq
    /\ last' = [Answer(NewReq("logout", ev, 0, NoItem), 200, "", "")
                  EXCEPT !.loc = [setCookie |-> clearCookie]]
    /\ nreq' = nreq + 1
    /\ UNCHANGED <<users, stateStore, passed, jar, issuedBy, reqs, nextId,
                   dbFailed>>
    /\ AuthFrame

----------------------------------------------------------------------------
(* users-lambda *)

UsersFrame == UNCHANGED <<clock, ticks, venues, songs, issues, artists,
                          memberships, authState, nextId>>

\* PUT /users/profile, up to the get of the caller's user record
handleUpdateProfile_get(ev, body, ok) ==
    /\ nreq < MaxAuthReq
    /\ LET auth == requireAuth(ev, clock)
           r == NewReq("updateProfile", ev, auth.user.userId, body)
       IN  IF auth.error # ""
           THEN /\ last' = Answer(r, 401, auth.error, "")
                /\ UNCHANGED <<reqs, dbFailed>>
           ELSE IF body = BadBody
           THEN /\ last' = Answer(r, 500, "Internal server error", "")
                /\ UNCHANGED <<reqs, dbFailed>>
           ELSE IF ok
           THEN /\ reqs' = reqs \cup
                     {[r EXCEPT !.pc = "got",
                                !.existed = Existed(users, r.id)]}
                /\ UNCHANGED <<last, dbFailed>>
           ELSE /\ last' = Answer(r, 500, "Internal server error", "")
                /\ dbFailed' = TRUE
                /\ UNCHANGED reqs
    /\ nreq' = nreq + 1
    /\ UNCHANGED users
    /\ UsersFrame

\* profileComplete = !!(firstName && lastName && displayName)
profileComplete(b) ==
    ~Falsy(b.firstName) /\ ~Falsy(b.lastName) /\ ~Falsy(b.displayName)

\* the update expression of handleUpdateProfile
ProfileSets(b) ==
    [first_name |-> Or(b.firstName, Null),
     last_name |-> Or(b.lastName, Null),
     display_name |-> Or(b.displayName, Null),
     avatar_url |-> Or(b.avatarUrl, Null),
     instrument |-> Or(b.instrument, Null),
     hometown |-> Or(b.hometown, Null),
     profile_complete |-> profileComplete(b),
     updated_at |-> IsoNow]

\* PUT /users/profile, from the result of the get
handleUpdateProfile_update(r, ok) ==
    /\ r \in reqs
    /\ r.kind = "updateProfile"
    /\ r.pc = "got"
    /\ reqs' = reqs \ {r}
    /\ IF r.existed = "no"
       THEN /\ last' = Answer(r, 404, "User not found", "")
            /\ UNCHANGED <<users, dbFailed>>
       ELSE IF ok
       THEN /\ users' = TableUpdate(users, r.id, "cognito_id",
                                    ProfileSets(r.body))
            /\ last' = Wrote(r, 200, ItemAt(users, r.id), users'[r.id])
            /\ UNCHANGED dbFailed
       ELSE /\ last' = Answer(r, 500, "Internal server error", "")
            /\ dbFailed' = TRUE
            /\ UNCHANGED users
    /\ UNCHANGED nreq
    /\ UsersFrame

----------------------------------------------------------------------------
(* The clock *)

\* time passes by d ms
Tick(d) ==
    /\ ticks < MaxTicks
    /\ clock' = clock + d
    /\ ticks' = ticks + 1
    /\ UNCHANGED <<venues, songs, issues, artists, memberships, users,
                   authState, reqs, last, nreq, nextId, dbFailed>>

----------------------------------------------------------------------------
(* Inputs *)

\* a session token the auth callback signed for user u at time 0, one
\* signed with another secret, and one that expired before time 0
GoodToken(u) ==
    JwtSign([userId |-> u, username |-> "alice", email |-> "a@bndy",
             issuedAt |-> 0], JWT_SECRET, 0)
ForgedToken ==
    JwtSign([userId |-> "u1", username |-> "alice", email |-> "a@bndy",
             issuedAt |-> 0], "another secret", 0)
ExpiredToken ==
    JwtSign([userId |-> "u1", username |-> "alice", email |-> "a@bndy",
             issuedAt |-> 0], JWT_SECRET, 0 - (SessionTTL + 1) * 1000)

Cookie(tok) == [name |-> "bndy_session", value |-> tok]

EvNone == [fmt |-> "v2", cookies |-> <<>>]
EvGood == [fmt |-> "v2", cookies |-> <<Cookie(GoodToken("u1"))>>]
EvForged == [fmt |-> "hdr", cookies |-> <<Cookie(ForgedToken)>>]

Events == {EvNone, EvGood, EvForged}

\* the identifiers a client can name: 0, which no record ever had, and
\* every identifier generated so far
ClientIds == 0 .. (nextId - 1)

VenueBodies ==
    {[name |-> "a", latitude |-> "51", longitude |-> "51", phone |-> "p"],
     [name |-> "b", latitude |-> Undef, longitude |-> Undef, phone |-> Undef]}

SongBodies ==
    {[title |-> "s", artistName |-> "x"],
     [title |-> "t", artistName |-> Undef]}

ArtistBodies ==
    {[name |-> "band", bio |-> "b", memberDisplayName |-> Undef],
     [name |-> "duo", bio |-> Undef, memberDisplayName |-> "Al"]}

IssueBody(t, d, ty, p, st, sc) ==
    [title |-> t, description |-> d, type |-> ty, priority |-> p,
     status |-> st, screenshotUrl |-> sc]

IssueBodies ==
    {IssueBody("t", "d", "bug", "high", Undef, "pic"),
     IssueBody(Undef, Undef, Undef, Undef, "resolved", Undef),
     IssueBody("t", "d", "bogus", Undef, Undef, Undef)}

AddMemberBodies ==
    {[userId |-> "u2", role |-> Undef, displayName |-> Undef,
      instrument |-> Undef],
     [userId |-> "u1", role |-> "admin", displayName |-> "Bob",
      instrument |-> "bass"]}

MembershipBodies ==
    {[role |-> Undef, displayName |-> "Bob", instrument |-> Undef,
      status |-> Undef],
     [role |-> Undef, displayName |-> Undef, instrument |-> Undef,
      status |-> "inactive"]}

----------------------------------------------------------------------------
(* The resource handlers together *)

Init ==
    /\ clock = 0
    /\ ticks = 0
    /\ venues = NoItem
    /\ songs = NoItem
    /\ issues = NoItem
    /\ artists = NoItem
    /\ memberships = NoItem
    /\ users = NoItem
    /\ stateStore = (1 :> NoItem)
    /\ issuedBy = NoItem
    /\ reqs = {}
    /\ last = NoReq
    /\ nreq = 0
    /\ nextId = 1
    /\ dbFailed = FALSE
    /\ passed = NoItem
    /\ jar = {}

VenuesNext ==
    \E ev \in Events, ok \in BOOLEAN :
        \/ \E body \in VenueBodies \cup {BadBody} :
               handleCreateVenue(ev, body, ok)
        \/ \E id \in ClientIds, body \in VenueBodies :
               handleUpdateVenue(ev, id, body, ok)
        \/ \E id \in ClientIds : handleDeleteVenue(ev, id, ok)

SongsNext ==
    \E ev \in Events, ok \in BOOLEAN :
        \/ \E body \in SongBodies : handleCreateSong(ev, body, ok)
        \/ \E id \in ClientIds, body \in SongBodies \cup {BadBody} :
               handleUpdateSong(ev, id, body, ok)
        \/ \E id \in ClientIds : handleDeleteSong(ev, id, ok)

\* the steps of the issues lambda for request bodies drawn from bodies
IssuesStep(bodies) ==
    \E ok \in BOOLEAN :
        \/ \E ev \in Events, body \in bodies \cup {BadBody} :
               handleCreateIssue(ev, body, ok)
        \/ \E ev \in Events, id \in ClientIds, body \in bodies :
               handleUpdateIssue_get(ev, id, body, ok)
        \/ \E ev \in Events, id \in ClientIds :
               handleDeleteIssue_get(ev, id, ok)
        \/ \E r \in reqs : handleUpdateIssue_update(r, ok)
        \/ \E r \in reqs : handleDeleteIssue_delete(r, ok)

IssuesNext == IssuesStep(IssueBodies)

ArtistsNext ==
    \E ok \in BOOLEAN :
        \/ \E ev \in Events, body \in ArtistBodies \cup {BadBody} :
               handleCreateArtist_artist(ev, body, ok)
        \/ \E r \in reqs : handleCreateArtist_membership(r, ok)
        \/ \E ev \in Events, id \in ClientIds, body \in ArtistBodies :
               handleUpdateArtist(ev, id, body, ok)
        \/ \E ev \in Events, id \in ClientIds : handleDeleteArtist(ev, id, ok)

MembershipsNext ==
    \E ok \in BOOLEAN :
        \/ \E ev \in Events, id \in ClientIds, body \in AddMemberBodies :
               handleAddMember_artist(ev, id, body, ok)
        \/ \E r \in reqs : handleAddMember_query(r, ok)
        \/ \E r \in reqs : handleAddMember_put(r, ok)
        \/ \E r \in reqs : handleAddMember_count(r, ok)
        \/ \E r \in reqs : handleAddMember_resolve(r, ok)
        \/ \E ev \in Events, id \in ClientIds,
              body \in MembershipBodies \cup {BadBody} :
               handleUpdateMembership_get(ev, id, body, ok)
        \/ \E r \in reqs : handleUpdateMembership_update(r, ok)
        \/ \E r \in reqs : handleUpdateMembership_resolve(r, ok)
        \/ \E ev \in Events, id \in ClientIds :
               handleDeleteMembership_get(ev, id, ok)
        \/ \E r \in reqs : handleDeleteMembership_delete(r, ok)
        \/ \E r \in reqs : handleDeleteMembership_count(r, ok)

Next ==
    \/ VenuesNext
    \/ SongsNext
    \/ IssuesNext
    \/ ArtistsNext
    \/ MembershipsNext
    \/ Tick(1)

Spec == Init /\ [][Next]_vars

----------------------------------------------------------------------------
(* Properties of the resource handlers, read off the answered request *)

CreateKinds == {"createVenue", "createSong", "createIssue", "createArtist",
                "addMember"}
UpdateKinds == {"updateVenue", "updateSong", "updateIssue", "updateArtist",
                "updateMembership"}
DeleteKinds == {"deleteVenue", "deleteSong", "deleteIssue", "deleteArtist",
                "deleteMembership"}

\* the stored attribute a body field is written to
AttrOf(f) ==
    CASE f = "displayName" -> "display_name"
      [] f = "screenshotUrl" -> "screenshot_url"
      [] OTHER -> f

\* the stored attributes the request body names
Named(body) == {AttrOf(f) : f \in {g \in DOMAIN body : body[g] # Undef}}

\* C3: a create, update or delete request of a resource handler that
\* carries no valid session token is answered with 401 and has performed
\* no write
C3_UnauthenticatedRefused ==
    (last.kind \in CreateKinds \cup UpdateKinds \cup DeleteKinds
        /\ ~last.authed)
    => (last.status = 401 /\ last.writes = 0)

\* C7: an update answered with success on an existing record has left
\* every stored attribute that the body does not name at its previous
\* value and has set the update timestamp to the time of the write
C7_PartialMerge ==
    (last.kind \in UpdateKinds /\ last.existed = "yes"
        /\ last.status = 200 /\ last.body # BadBody)
    => /\ \A a \in DOMAIN last.pre \ (Named(last.body) \cup
                                       {"updated_at", "updatedAt"}) :
              /\ a \in DOMAIN last.post
              /\ last.post[a] = last.pre[a]
       /\ \E a \in {"updated_at", "updatedAt"} :
              /\ a \in DOMAIN last.post
              /\ last.post[a] = last.at

\* C8: when no data-store call has failed, a delete request for an id
\* under which the handler found no record is answered with 404
C8_DeleteMissingIs404 ==
    (last.kind \in DeleteKinds /\ last.existed = "no" /\ ~dbFailed)
    => last.status = 404

\* C10: when no data-store call has failed, an update request with a
\* well-formed body for an id under which the handler found no record is
\* answered with 404 and has written nothing
C10_UpdateMissingIs404 ==
    (last.kind \in UpdateKinds /\ last.existed = "no" /\ ~dbFailed
        /\ last.body # BadBody)
    => (last.status = 404 /\ last.writes = 0)

----------------------------------------------------------------------------
(* Artist creation and the memberships handlers on their own *)

NextMembers ==
    \/ \E ev \in Events, body \in ArtistBodies \cup {BadBody},
          ok \in BOOLEAN : handleCreateArtist_artist(ev, body, ok)
    \/ \E r \in reqs, ok \in BOOLEAN : handleCreateArtist_membership(r, ok)
    \/ MembershipsNext
    \/ Tick(1)

SpecMembers == Init /\ [][NextMembers]_vars

\* the memberships with status 'active' whose artist_id is a
ActiveMembers(a) ==
    {k \in DOMAIN memberships :
        /\ HasAttr(memberships[k], "artist_id", a)
        /\ HasAttr(memberships[k], "status", "active")}

\* the memberships whose artist_id is a
MembersOf(t, a) == {k \in DOMAIN t : HasAttr(t[k], "artist_id", a)}

\* C1: when no data-store call has failed and no request is in progress,
\* every artist's member_count is the number of its active memberships
C1_MemberCount ==
    (reqs = {} /\ ~dbFailed)
    => \A a \in DOMAIN artists :
           artists[a].member_count = Cardinality(ActiveMembers(a))

\* the step at which the owner membership put of an artist creation fails
CreateArtistFails ==
    /\ last' # last
    /\ last'.kind = "createArtist"
    /\ last'.status = 500
    /\ last'.writes = 1

\* C6: an owner membership enters the store only in a step of an artist
\* creation whose artist record is already stored; and the step at which
\* the membership put fails answers 500, changes neither table, and leaves
\* the artist stored with the caller as owner and without its owner
\* membership (with member_count 1 and no membership at all when no other
\* request has arrived)
C6_ArtistThenMembership ==
    [][/\ \A k \in DOMAIN memberships' \ DOMAIN memberships :
              HasAttr(memberships'[k], "role", "owner")
              => \E r \in reqs :
                     /\ r.kind = "createArtist"
                     /\ r.pc = "artistPut"
                     /\ r.loc.membershipId = k
                     /\ memberships'[k].artist_id = r.id
                     /\ r.id \in DOMAIN artists
       /\ CreateArtistFails
          => /\ artists' = artists
             /\ memberships' = memberships
             /\ last'.id \in DOMAIN artists'
             /\ Attr(artists'[last'.id], "owner_user_id") = last'.loc.userId
             /\ last'.loc.membershipId \notin DOMAIN memberships'
             /\ \A k \in MembersOf(memberships', last'.id) :
                    ~HasAttr(memberships'[k], "role", "owner")
             /\ nreq' = 1
                => /\ artists'[last'.id].member_count = 1
                   /\ MembersOf(memberships', last'.id) = {}
      ]_vars

\* an artist creation has failed at its membership put
C6_Witness ==
    /\ last.kind = "createArtist"
    /\ last.status = 500
    /\ last.writes = 1
    /\ last.id \in DOMAIN artists
    /\ MembersOf(memberships, last.id) = {}

----------------------------------------------------------------------------
(* The issues handlers on their own, over bodies that have each validated  *)
(* field valid, invalid, empty or absent, alone and together               *)

IssueBodiesAll ==
    {IssueBody("t", "d", "bug", "high", "resolved", Undef),
     IssueBody("t", "d", "bogus", "high", Undef, Undef),
     IssueBody("t", "d", "bogus", "bogus", "bogus", Undef),
     IssueBody("t", "d", "bug", "bogus", "bogus", Undef),
     IssueBody("t", "d", "bug", Undef, "bogus", Undef),
     IssueBody("t", "d", Undef, Undef, "bogus", Undef),
     IssueBody("t", "d", "", "bogus", Undef, Undef),
     IssueBody("t", "d", "", Undef, Undef, Undef),
     IssueBody(Undef, "d", "bogus", Undef, Undef, Undef)}

NextIssues ==
    \/ IssuesStep(IssueBodiesAll)
    \/ Tick(1)

SpecIssues == Init /\ [][NextIssues]_vars

\* the values the specification allows for an issue's type, priority and
\* status
IssueTypes == {"bug", "unfinished", "enhancement", "new"}
IssuePriorities == {"critical", "high", "medium", "low"}
IssueStatuses == {"new", "in-progress", "resolved", "wont-fix"}

\* the body supplies for a field a value outside its allow-list
Outside(v, valid) == v # Undef /\ v \notin valid

\* the value is one the handler looks at (truthy) and outside the allow-list
Rejected(v, valid) == ~Falsy(v) /\ v \notin valid

\* the allow-lists of the fields of the body whose value is outside them
OffendingLists(b) ==
    {l \in {"validTypes", "validPriorities", "validStatuses"} :
        \/ l = "validTypes" /\ Outside(b.type, IssueTypes)
        \/ l = "validPriorities" /\ Outside(b.priority, IssuePriorities)
        \/ l = "validStatuses" /\ Outside(b.status, IssueStatuses)}

\* the allow-list the handler names: that of the first rejected field
FirstRejected(b) ==
    IF Rejected(b.type, IssueTypes) THEN "validTypes"
    ELSE IF Rejected(b.priority, IssuePriorities) THEN "validPriorities"
    ELSE "validStatuses"

----------------------------------------------------------------------------
(* The auth and users handlers of one process, against a users table that  *)
(* is empty or holds the record and the session of an earlier first login  *)

\* the identity tokens the provider returns for the one Google account
IdTokens ==
    {[sub |-> "u1", email |-> "a@bndy", username |-> "alice",
      picture |-> "pic", given_name |-> "Al", family_name |-> "Smith"],
     [sub |-> "u1", email |-> "a@bndy", username |-> "alice",
      picture |-> Undef, given_name |-> Undef, family_name |-> Undef]}

\* an earlier login whose identity token carried no names and no picture
EarlierIdToken ==
    [sub |-> "u1", email |-> "a@bndy", username |-> "alice",
     picture |-> Undef, given_name |-> Undef, family_name |-> Undef]

ProfileBodies ==
    {[firstName |-> "Bob", lastName |-> "B", displayName |-> "Bobby",
      avatarUrl |-> "mine", instrument |-> "bass", hometown |-> Undef],
     [firstName |-> "Bob", lastName |-> Undef, displayName |-> Undef,
      avatarUrl |-> Undef, instrument |-> Undef, hometown |-> Undef]}

\* the states a callback can present: every one issued, one never issued,
\* and none
ClientStates == {ToString(i) : i \in 0 .. (nextId - 1)} \cup {Undef}

Queries ==
    {[code |-> c, state |-> st, error |-> e] :
        c \in {"code", Undef}, st \in ClientStates,
        e \in {Undef, "access_denied"}}

\* the events a client can send: without a cookie, or with a forged, an
\* expired, or an issued session token
AuthEvents ==
    {EvNone, EvForged} \cup
    {[fmt |-> "v2", cookies |-> <<Cookie(tok)>>] : tok \in jar \cup {ExpiredToken}}

InitAuth ==
    /\ clock = 0
    /\ ticks = 0
    /\ venues = NoItem
    /\ songs = NoItem
    /\ issues = NoItem
    /\ artists = NoItem
    /\ memberships = NoItem
    /\ \/ users = NoItem /\ jar = {}
       \/ /\ users = ("u1" :> NewUserItem(EarlierIdToken, 0, "0"))
          /\ jar = {GoodToken("u1")}
    /\ stateStore = (1 :> NoItem)
    /\ issuedBy = NoItem
    /\ reqs = {}
    /\ last = NoReq
    /\ nreq = 0
    /\ nextId = 1
    /\ dbFailed = FALSE
    /\ passed = NoItem

NextAuth ==
    \/ \E i \in Instances : handleGoogleAuth(EvNone, i)
    \/ \E q \in Queries, i \in Instances :
           handleOAuthCallback_state(EvNone, q, i)
    \/ \E r \in reqs, idToken \in IdTokens \cup {NoIdToken}, ok \in BOOLEAN :
           handleOAuthCallback_exchange(r, idToken, ok)
    \/ \E r \in reqs, ok \in BOOLEAN : createOrUpdateUser_write(r, ok)
    \/ \E r \in reqs : handleOAuthCallback_session(r)
    \/ \E ev \in AuthEvents, ok \in BOOLEAN : handleGetMe_get(ev, ok)
    \/ \E r \in reqs, ok \in BOOLEAN : handleGetMe_respond(r, ok)
    \/ \E ev \in AuthEvents, body \in ProfileBodies \cup {BadBody},
          ok \in BOOLEAN : handleUpdateProfile_get(ev, body, ok)
    \/ \E r \in reqs, ok \in BOOLEAN : handleUpdateProfile_update(r, ok)
    \/ Tick(1)
    \/ Tick(StateTTL)
    \/ Tick(SessionTTL * 1000 - 1)

SpecAuth == InitAuth /\ [][NextAuth]_vars

\* the login flow on its own: the redirect to the identity provider and the
\* callback, with the time a state lives passing
NextLogin ==
    \/ \E i \in Instances : handleGoogleAuth(EvNone, i)
    \/ \E q \in Queries, i \in Instances :
           handleOAuthCallback_state(EvNone, q, i)
    \/ \E r \in reqs, idToken \in IdTokens \cup {NoIdToken}, ok \in BOOLEAN :
           handleOAuthCallback_exchange(r, idToken, ok)
    \/ \E r \in reqs, ok \in BOOLEAN : createOrUpdateUser_write(r, ok)
    \/ \E r \in reqs : handleOAuthCallback_session(r)
    \/ Tick(1)
    \/ Tick(StateTTL)

SpecLogin == InitAuth /\ [][NextLogin]_vars

\* the login flow and the session check of /auth/me, with the time a
\* session lives passing
NextSession ==
    \/ \E i \in Instances : handleGoogleAuth(EvNone, i)
    \/ \E q \in Queries, i \in Instances :
           handleOAuthCallback_state(EvNone, q, i)
    \/ \E r \in reqs, idToken \in IdTokens \cup {NoIdToken}, ok \in BOOLEAN :
           handleOAuthCallback_exchange(r, idToken, ok)
    \/ \E r \in reqs, ok \in BOOLEAN : createOrUpdateUser_write(r, ok)
    \/ \E r \in reqs : handleOAuthCallback_session(r)
    \/ \E ev \in AuthEvents, ok \in BOOLEAN : handleGetMe_get(ev, ok)
    \/ \E r \in reqs, ok \in BOOLEAN : handleGetMe_respond(r, ok)
    \/ Tick(1)
    \/ Tick(SessionTTL * 1000 - 1)

SpecSession == InitAuth /\ [][NextSession]_vars

\* the requests in progress and the one answered last
Seen == reqs \cup (IF last.kind = "none" THEN {} ELSE {last})

\* the callback request that arrives in this step, if one does
ArrivingCallbacks ==
    IF nreq' = nreq + 1
    THEN {r \in reqs' \cup {last'} : r.n = nreq' /\ r.kind = "callback"}
    ELSE {}

\* C2: no issued state lets more than one callback through; the callback
\* it lets through removes it from the store; and a callback presenting no
\* state, a state never issued, or a state that has already let a callback
\* through is answered at once with the invalid_state redirect, without a
\* token exchange, a user write or a cookie
C2_StateOnce ==
    [][/\ \A s \in DOMAIN passed' : passed'[s] <= 1
       /\ \A s \in DOMAIN passed :
              passed'[s] > passed[s] => s \notin Pending'
       /\ \A r \in ArrivingCallbacks :
              (r.id \notin DOMAIN passed \/ passed[r.id] >= 1)
              => /\ r = last'
                 /\ r.pc = "done"
                 /\ r.status = 302
                 /\ r.error = "invalid_state"
                 /\ r.writes = 0
                 /\ users' = users
                 /\ jar' = jar
      ]_vars

\* a state that let one callback through was presented again and refused
C2_Witness ==
    /\ last.kind = "callback"
    /\ last.error = "invalid_state"
    /\ last.id \in DOMAIN passed
    /\ passed[last.id] = 1

\* the token's exp is not after time t (in ms)
TokenExpired(tok, t) == (t \div 1000) >= tok.claims.exp

\* C4: a GET /api/me whose session token is signed with another secret or
\* has expired on arrival is answered 401 'Invalid session'; one whose
\* token the callback issued and has not expired is not refused, and the
\* claims requireAuth returns are the ones the callback signed
C4_SessionVerification ==
    \A r \in Seen :
        r.kind = "getMe"
        => LET tok == SessionToken(r.ev)
           IN  /\ (tok.form = "jwt"
                     /\ (tok.key # JWT_SECRET \/ TokenExpired(tok, r.t)))
                  => (r.status = 401 /\ r.error = "Invalid session")
               /\ (tok \in jar /\ ~TokenExpired(tok, r.t))
                  => /\ r.status # 401
                     /\ r.status # 500 => r.loc.user = tok.claims

\* a token that a callback of this behaviour signed after time 0 was
\* accepted
C4_Witness ==
    /\ last.kind = "getMe"
    /\ last.status = 200
    /\ SessionToken(last.ev) \in jar
    /\ SessionToken(last.ev).claims.issuedAt > 0
    /\ last.loc.user.userId = "u1"

\* both records lack the attribute or both have it with the same value
SameAttr(pre, post, f) ==
    /\ (f \in DOMAIN pre) = (f \in DOMAIN post)
    /\ f \in DOMAIN pre => pre[f] = post[f]

\* C5: the update that a login of an existing user makes leaves a stored
\* non-null first_name, last_name and avatar_url as they are, and leaves
\* display_name, instrument, hometown, profile_complete, user_id and
\* created_at unchanged
C5_FillsOnlyNull ==
    \A r \in Seen :
        (r.kind = "callback" /\ r.existed = "yes" /\ r.writes = 1)
        => /\ \A f \in {"first_name", "last_name", "avatar_url"} :
                  Attr(r.pre, f) \notin {Null, Undef}
                  => SameAttr(r.pre, r.post, f)
           /\ \A f \in {"display_name", "instrument", "hometown",
                        "profile_complete", "user_id", "created_at"} :
                  SameAttr(r.pre, r.post, f)

----------------------------------------------------------------------------
(* The create handlers on their own, over bodies with and without the      *)
(* record's name or title                                                  *)

VenueBodiesNoName ==
    {[name |-> Undef, latitude |-> "51", longitude |-> "51", phone |-> "p"]}

SongBodiesNoTitle == {[title |-> Undef, artistName |-> "x"]}

ArtistBodiesNoName ==
    {[name |-> Undef, bio |-> "b", memberDisplayName |-> Undef]}

NextCreate ==
    \/ \E ev \in Events, ok \in BOOLEAN :
           \/ \E body \in VenueBodies \cup VenueBodiesNoName :
                  handleCreateVenue(ev, body, ok)
           \/ \E body \in SongBodies \cup SongBodiesNoTitle :
                  handleCreateSong(ev, body, ok)
           \/ \E body \in IssueBodies : handleCreateIssue(ev, body, ok)
           \/ \E body \in ArtistBodies \cup ArtistBodiesNoName :
                  handleCreateArtist_artist(ev, body, ok)
    \/ \E r \in reqs, ok \in BOOLEAN : handleCreateArtist_membership(r, ok)
    \/ Tick(1)

SpecCreate == Init /\ [][NextCreate]_vars

\* the field of the body that the record of the handler requires
RequiredField(kind) ==
    IF kind \in {"createSong", "createIssue"} THEN "title" ELSE "name"

\* C11: a create of a venue, song, issue or artist whose body lacks the
\* record's required field (title or name), sent with a valid session and
\* served without a data-store failure, is answered 400 and has stored
\* nothing
C11_RequiredFieldChecked ==
    (/\ last.kind \in {"createVenue", "createSong", "createIssue",
                       "createArtist"}
     /\ last.authed
     /\ ~dbFailed
     /\ last.body[RequiredField(last.kind)] = Undef)
    => /\ last.status = 400
       /\ last.writes = 0

----------------------------------------------------------------------------
(* memberships-lambda, the reads.  The artist details that                 *)
(* handleGetMyMemberships adds to each membership are left out.            *)

\* one membership of a read's answer: the stored membership, the user
\* record resolveMembershipProfile read, and the fields it added
MemberEntry(membership, userProfile) ==
    [membership |-> membership, userProfile |-> userProfile,
     resolved |-> resolveMembershipProfile(membership, userProfile)]

\* the memberships whose artist_id is artistId (the index artist_id-index)
MembershipsOfArtist(artistId) ==
    {memberships[k] : k \in MembersOf(memberships, artistId)}

\* a read whose query returned items: it goes on to resolve them, or
\* answers 200 at once when there are none
Queried(r, pc, items) ==
    IF items = {}
    THEN /\ last' = [Goto(r, "done") EXCEPT
                       !.status = 200,
                       !.loc = [pending |-> {}, members |-> {}]]
         /\ UNCHANGED reqs
    ELSE /\ reqs' = reqs \cup
              {[Goto(r, pc) EXCEPT !.loc = [pending |-> items,
                                            members |-> {}]]}
         /\ UNCHANGED last

\* GET /api/artists/{artistId}/members, up to the query of the memberships
handleGetArtistMembers_query(ev, artistId, ok) ==
    /\ nreq < MaxReq
    /\ LET r == NewReq("getArtistMembers", ev, artistId, NoItem)
           auth == requireAuth(ev, clock)
       IN  IF auth.error # ""
           THEN /\ last' = Answer(r, 401, auth.error, "")
                /\ UNCHANGED <<reqs, dbFailed>>
           ELSE IF ok
           THEN /\ Queried(r, "resolving", MembershipsOfArtist(artistId))
                /\ UNCHANGED dbFailed
           ELSE /\ last' = Answer(r, 500, "Internal server error", "")
                /\ dbFailed' = TRUE
                /\ UNCHANGED reqs
    /\ nreq' = nreq + 1
    /\ UNCHANGED <<artists, memberships, nextId>>
    /\ MembersFrame

\* one of the calls of resolveMembershipProfile that Promise.all awaits:
\* the get of the user record of membership m, in any order among the
\* pending ones; the first to throw makes the handler answer 500, the last
\* to return makes it answer 200
ResolveMember(r, m, userId, ok) ==
    /\ r \in reqs
    /\ r.pc = "resolving"
    /\ m \in r.loc.pending
    /\ IF ok /\ userId # Undef
       THEN LET members == r.loc.members \cup
                               {MemberEntry(m, ItemAt(users, userId))}
                pending == r.loc.pending \ {m}
                s == [r EXCEPT !.loc = [pending |-> pending,
                                        members |-> members]]
            IN  /\ IF pending = {}
                   THEN /\ reqs' = reqs \ {r}
                        /\ last' = [Goto(s, "done") EXCEPT !.status = 200]
                   ELSE /\ reqs' = (reqs \ {r}) \cup {s}
                        /\ UNCHANGED last
                /\ UNCHANGED dbFailed
       ELSE Throw(r)
    /\ UNCHANGED <<artists, memberships, nreq, nextId>>
    /\ MembersFrame

\* handleGetArtistMembers, the resolution of one member's profile
handleGetArtistMembers_resolve(r, m, ok) ==
    /\ r.kind = "getArtistMembers"
    /\ ResolveMember(r, m, Attr(m, "user_id"), ok)

\* GET /api/memberships/me, up to the query of the caller's memberships
handleGetMyMemberships_query(ev, ok) ==
    /\ nreq < MaxReq
    /\ LET auth == requireAuth(ev, clock)
           r == NewReq("getMyMemberships", ev, auth.user.userId, NoItem)
       IN  IF auth.error # ""
           THEN /\ last' = Answer(r, 401, auth.error, "")
                /\ UNCHANGED <<reqs, dbFailed>>
           ELSE IF ok
           THEN /\ Queried(r, "queried", MembershipsOfUser(auth.user.userId))
                /\ UNCHANGED dbFailed
           ELSE /\ last' = Answer(r, 500, "Internal server error", "")
                /\ dbFailed' = TRUE
                /\ UNCHANGED reqs
    /\ nreq' = nreq + 1
    /\ UNCHANGED <<artists, memberships, nextId>>
    /\ MembersFrame

\* handleGetMyMemberships, the batchGet of the memberships' artists
handleGetMyMemberships_artists(r, ok) ==
    /\ r \in reqs
    /\ r.kind = "getMyMemberships"
    /\ r.pc = "queried"
    /\ IF ok
       THEN /\ reqs' = (reqs \ {r}) \cup {Goto(r, "resolving")}
            /\ UNCHANGED <<last, dbFailed>>
       ELSE Throw(r)
    /\ UNCHANGED <<artists, memberships, nreq, nextId>>
    /\ MembersFrame

\* handleGetMyMemberships, the resolution of one membership's profile
\* against the caller's user record
handleGetMyMemberships_resolve(r, m, ok) ==
    /\ r.kind = "getMyMemberships"
    /\ ResolveMember(r, m, r.id, ok)

----------------------------------------------------------------------------
(* The profile handlers together: a user who logged in and created an      *)
(* artist updates the profile and the owner membership while the           *)
(* memberships are read                                                    *)

\* the bodies of PUT /api/memberships/{id} that set or clear an override
OverrideBodies ==
    {[role |-> Undef, displayName |-> "Bob", instrument |-> Undef,
      status |-> Undef],
     [role |-> Undef, displayName |-> "", instrument |-> "drums",
      status |-> Undef],
     [role |-> Undef, displayName |-> Null, instrument |-> Undef,
      status |-> Undef]}

\* the state after user u1 logged in with an identity token of IdTokens
\* and created artist 1, whose owner membership is 2
InitProfile ==
    /\ clock = 0
    /\ ticks = 0
    /\ venues = NoItem
    /\ songs = NoItem
    /\ issues = NoItem
    /\ \E idToken \in IdTokens : users = ("u1" :> NewUserItem(idToken, 0, "0"))
    /\ artists = (1 :> [id |-> 1, name |-> "band", owner_user_id |-> "u1",
                        bio |-> "", member_count |-> 1,
                        created_at |-> "0", updated_at |-> "0"])
    /\ memberships = (2 :> [membership_id |-> 2, user_id |-> "u1",
                            artist_id |-> 1, role |-> "owner",
                            display_name |-> Null, avatar_url |-> Null,
                            instrument |-> Null, status |-> "active",
                            created_at |-> "0", updated_at |-> "0"])
    /\ stateStore = (1 :> NoItem)
    /\ issuedBy = NoItem
    /\ reqs = {}
    /\ last = NoReq
    /\ nreq = 0
    /\ nextId = 3
    /\ dbFailed = FALSE
    /\ passed = NoItem
    /\ jar = {}

\* the reads that are resolving their memberships
Resolving == {r \in reqs : r.pc = "resolving"}

\* the events of the profile handlers' clients
ProfileEvents == {EvNone, EvGood}

NextProfile ==
    \E ok \in BOOLEAN :
        \/ \E ev \in ProfileEvents, body \in ProfileBodies :
               handleUpdateProfile_get(ev, body, ok)
        \/ \E r \in reqs : handleUpdateProfile_update(r, ok)
        \/ \E ev \in ProfileEvents, id \in ClientIds, body \in OverrideBodies :
               handleUpdateMembership_get(ev, id, body, ok)
        \/ \E r \in reqs : handleUpdateMembership_update(r, ok)
        \/ \E r \in reqs : handleUpdateMembership_resolve(r, ok)
        \/ \E ev \in ProfileEvents, id \in ClientIds :
               handleGetArtistMembers_query(ev, id, ok)
        \/ \E r \in Resolving : \E m \in r.loc.pending :
               handleGetArtistMembers_resolve(r, m, ok)
        \/ \E ev \in ProfileEvents : handleGetMyMemberships_query(ev, ok)
        \/ \E r \in reqs : handleGetMyMemberships_artists(r, ok)
        \/ \E r \in Resolving : \E m \in r.loc.pending :
               handleGetMyMemberships_resolve(r, m, ok)

SpecProfile == InitProfile /\ [][NextProfile]_vars

\* the resolution the specification describes: the membership's value
\* when it is neither null nor absent, else the user's, else the fallback
Inherit(mv, uv, fallback) ==
    IF mv \notin {Null, Undef} THEN mv
    ELSE IF uv \notin {Null, Undef} THEN uv
    ELSE fallback

\* the value was taken from the membership
Custom(mv) == mv \notin {Null, Undef}

\* C12: in every answered read of memberships, each resolved field of
\* each membership is the membership's value when that is not null or
\* absent, else the user's value, else the fallback (username,
\* oauth_profile_picture, null), and each has_custom flag is true exactly
\* when the membership's value was taken
C12_ProfileResolution ==
    (last.kind \in {"getArtistMembers", "getMyMemberships"}
        /\ last.status = 200)
    => \A e \in last.loc.members :
           LET m == e.membership
               u == e.userProfile
               res == e.resolved
           IN  /\ res.resolved_display_name =
                      Inherit(Attr(m, "display_name"), Attr(u, "display_name"),
                              Attr(u, "username"))
               /\ res.resolved_avatar_url =
                      Inherit(Attr(m, "avatar_url"), Attr(u, "avatar_url"),
                              Attr(u, "oauth_profile_picture"))
               /\ res.resolved_instrument =
                      Inherit(Attr(m, "instrument"), Attr(u, "instrument"), Null)
               /\ res.has_custom_display_name = Custom(Attr(m, "display_name"))
               /\ res.has_custom_avatar = Custom(Attr(m, "avatar_url"))
               /\ res.has_custom_instrument = Custom(Attr(m, "instrument"))

\* the attributes that hold a resolved profile
ResolvedAttrs ==
    {"resolved_display_name", "resolved_avatar_url", "resolved_instrument",
     "has_custom_display_name", "has_custom_avatar", "has_custom_instrument"}

\* no record of the memberships or users table has a resolved attribute
NoResolvedStored ==
    /\ \A k \in DOMAIN memberships : DOMAIN memberships[k] \cap ResolvedAttrs = {}
    /\ \A k \in DOMAIN users : DOMAIN users[k] \cap ResolvedAttrs = {}

\* the request numbered n after the step, in progress or just answered
After(n) ==
    IF last'.kind # "none" /\ last'.n = n THEN last'
    ELSE CHOOSE r \in reqs' : r.n = n

\* the entry shows, in each field its membership does not override, the
\* value of user record u, or the fallback when the user has none
ShowsUser(e, u) ==
    LET m == e.membership
        res == e.resolved
    IN  /\ ~Custom(Attr(m, "display_name"))
           => res.resolved_display_name =
                  Inherit(Null, Attr(u, "display_name"), Attr(u, "username"))
        /\ ~Custom(Attr(m, "avatar_url"))
           => res.resolved_avatar_url =
                  Inherit(Null, Attr(u, "avatar_url"),
                          Attr(u, "oauth_profile_picture"))
        /\ ~Custom(Attr(m, "instrument"))
           => res.resolved_instrument =
                  Inherit(Null, Attr(u, "instrument"), Null)

\* what PUT /users/profile is to store for a field of its body
Stored(v) == IF Falsy(v) THEN Null ELSE v

\* C13: no step leaves a resolved_* or has_custom_* attribute in the
\* memberships or users table; a PUT /users/profile that completes has
\* stored its body's display name, avatar and instrument; and every
\* profile that a membership read resolves shows, in each field the
\* membership does not override, the user record as it is stored at that
\* moment, so the values of the last completed PUT until the record is
\* written again
C13_RecomputedOnRead ==
    [][/\ NoResolvedStored'
       /\ (last' # last /\ last'.kind = "updateProfile" /\ last'.status = 200)
          => LET u == users'[last'.id]
                 b == last'.body
             IN  /\ u.display_name = Stored(b.displayName)
                 /\ u.avatar_url = Stored(b.avatarUrl)
                 /\ u.instrument = Stored(b.instrument)
       /\ \A r \in Resolving :
              (r \notin reqs' /\ After(r.n).status # 500)
              => \A e \in After(r.n).loc.members \ r.loc.members :
                     LET uid == IF r.kind = "getMyMemberships" THEN r.id
                                ELSE e.membership.user_id
                     IN  ShowsUser(e, ItemAt(users, uid))
      ]_vars

\* a read of the members of artist 1 showed the display name, avatar and
\* instrument that a PUT /users/profile had stored
C13_Witness ==
    /\ last.kind \in {"getArtistMembers", "getMyMemberships"}
    /\ last.status = 200
    /\ \E e \in last.loc.members :
           /\ ~Custom(Attr(e.membership, "display_name"))
           /\ e.resolved.resolved_display_name = "Bobby"
           /\ e.resolved.resolved_avatar_url = "mine"
           /\ e.resolved.resolved_instrument = "bass"
    /\ users["u1"].display_name = "Bobby"

----------------------------------------------------------------------------
(* issues-lambda, the batch update.  The body is [issueIds, updates]: the  *)
(* empty sequence stands for an issueIds that is absent, no array or       *)
(* empty, the empty record for an updates that is absent or empty, which   *)
(* the handler treats alike.                                               *)

\* attribute names that an update expression may not use unescaped
ReservedWords == {"location"}

\* a batch that gave up at the first update that threw
BatchItemAborts(r, issueId) ==
    /\ reqs' = reqs \ {r}
    /\ last' = Answer(r, 500, "Internal server error", "")
    /\ dbFailed' = TRUE
    /\ UNCHANGED issues

\* the request after the update of the id at position r.loc.i threw or
\* returned: it goes on to the next id, or answers 200 after the last one
BatchAdvance(r, loc) ==
    IF r.loc.i = Len(r.body.issueIds)
    THEN /\ reqs' = reqs \ {r}
         /\ last' = [Goto(r, "done") EXCEPT !.status = 200, !.loc = loc]
    ELSE /\ reqs' = (reqs \ {r}) \cup {[r EXCEPT !.loc = loc]}
         /\ UNCHANGED last

\* the update of one id threw: the catch inside the loop records the id
\* in errors and the loop goes on
BatchItemFails(r, issueId) ==
    /\ BatchAdvance(r, [r.loc EXCEPT !.i = @ + 1,
                                     !.errors = Append(@, issueId)])
    /\ dbFailed' = TRUE
    /\ UNCHANGED issues

\* POST /issues/batch, up to the loop over the ids
handleBatchUpdateIssues_start(ev, body) ==
    /\ nreq < MaxReq
    /\ LET r == NewReq("batchUpdateIssues", ev, 0, body)
           auth == requireAuth(ev, clock)
       IN  IF auth.error # ""
           THEN /\ last' = Answer(r, 401, auth.error, "")
                /\ UNCHANGED reqs
           ELSE IF body = BadBody
           THEN /\ last' = Answer(r, 500, "Internal server error", "")
                /\ UNCHANGED reqs
           ELSE IF body.issueIds = <<>>
           THEN /\ last' = Answer(r, 400, "Issue IDs array required", "")
                /\ UNCHANGED reqs
           ELSE IF body.updates = NoItem
           THEN /\ last' = Answer(r, 400, "Updates object required", "")
                /\ UNCHANGED reqs
           ELSE /\ reqs' = reqs \cup
                     {[Goto(r, "batch") EXCEPT
                         !.loc = [i |-> 1, updated |-> <<>>, errors |-> <<>>]]}
                /\ UNCHANGED last
    /\ nreq' = nreq + 1
    /\ UNCHANGED <<issues, nextId, dbFailed>>
    /\ IssuesFrame

\* handleBatchUpdateIssues, one turn of the loop: the update of the id at
\* position r.loc.i, which creates the issue when there is none
handleBatchUpdateIssues_item(r, ok) ==
    /\ r \in reqs
    /\ r.kind = "batchUpdateIssues"
    /\ r.pc = "batch"
    /\ LET issueId == r.body.issueIds[r.loc.i]
           sets == r.body.updates @@ ("updated_at" :> IsoNow)
       IN  IF ok /\ DOMAIN r.body.updates \cap ReservedWords = {}
           THEN /\ issues' = TableUpdate(issues, issueId, "issue_id", sets)
                /\ BatchAdvance(r, [r.loc EXCEPT
                                      !.i = @ + 1,
                                      !.updated = Append(@, issues'[issueId])])
                /\ UNCHANGED dbFailed
           ELSE BatchItemFails(r, issueId)
    /\ UNCHANGED <<nreq, nextId>>
    /\ IssuesFrame

----------------------------------------------------------------------------
(* The issues handlers with the batch update *)

\* the longest issueIds of a batch
MaxBatch == 2

\* the bodies of a batch: the id no issue ever had and the id of the
\* first issue, once or repeated, with updates of the status or of the
\* location, or none
BatchBodies ==
    {[issueIds |-> ids, updates |-> u] :
        ids \in UNION {[1 .. n -> ClientIds \cap {0, 1}] : n \in 0 .. MaxBatch},
        u \in {("status" :> "resolved"), ("location" :> "x"), NoItem}}

NextBatch ==
    \/ \E ev \in {EvNone, EvGood}, body \in {IssueBody("t", "d", "bug", "high",
                                                       Undef, Undef)},
          ok \in BOOLEAN : handleCreateIssue(ev, body, ok)
    \/ \E ev \in {EvNone, EvGood}, body \in BatchBodies \cup {BadBody} :
           handleBatchUpdateIssues_start(ev, body)
    \/ \E r \in reqs, ok \in BOOLEAN : handleBatchUpdateIssues_item(r, ok)

SpecBatch == Init /\ [][NextBatch]_vars

\* the number of positions of sequence s whose element satisfies F
Count(s, F(_)) == Cardinality({i \in DOMAIN s : F(s[i])})

\* the batch was let through to its loop: a valid session, a body that
\* parses, a non-empty issueIds and a non-empty updates
BatchAccepted(r) ==
    /\ r.kind = "batchUpdateIssues"
    /\ r.authed
    /\ r.body # BadBody
    /\ r.body.issueIds # <<>>
    /\ r.body.updates # NoItem

\* C14: a batch update that reaches its loop is answered 200 whatever
\* updates threw; every id of issueIds is in updated or in errors as many
\* times as it was supplied, so the two lists together are as long as
\* issueIds; every entry of updated carries the updates; and while the
\* loop runs the ids handled so far are accounted for in the same way
C14_BatchBestEffort ==
    \A r \in Seen :
        BatchAccepted(r)
        => LET ids == r.body.issueIds
               done == IF r.pc = "done" THEN Len(ids) ELSE r.loc.i - 1
               handled == SubSeq(ids, 1, done)
           IN  /\ r.pc = "done" => r.status = 200
               /\ Len(r.loc.updated) + Len(r.loc.errors) = done
               /\ \A id \in ClientIds :
                      Count(handled, LAMBDA x : x = id)
                      = Count(r.loc.updated, LAMBDA x : x.issue_id = id)
                        + Count(r.loc.errors, LAMBDA x : x = id)
               /\ \A k \in DOMAIN r.loc.updated :
                      \A a \in DOMAIN r.body.updates :
                          r.loc.updated[k][a] = r.body.updates[a]

\* a batch of two ids was answered after the update of its first id threw
\* and the update of its second id was made
C14_Witness ==
    /\ BatchAccepted(last)
    /\ last.status = 200
    /\ Len(last.body.issueIds) = 2
    /\ last.loc.errors = <<last.body.issueIds[1]>>
    /\ Len(last.loc.updated) = 1
    /\ last.loc.updated[1].issue_id = last.body.issueIds[2]
    /\ HasAttr(ItemAt(issues, last.body.issueIds[2]), "status", "resolved")

----------------------------------------------------------------------------
(* Properties of the callback's outcomes *)

\* the steps of a callback in the order the handler takes them
StepOf(pc) ==
    CASE pc = "start" -> 0
      [] pc = "exchange" -> 1
      [] pc = "gotUser" -> 2
      [] pc = "upserted" -> 3
      [] pc = "done" -> 4

\* the outcome of an answered callback is the success response with the
\* session cookie, or the redirect to the login page with the error that
\* belongs to the step at which the callback stopped
CallbackOutcome(r) ==
    \/ /\ r.status = 200
       /\ r.error = ""
       /\ r.loc.cookie \in jar
    \/ /\ r.status = 302
       /\ \/ r.error = "invalid_state" /\ r.existed = "?"
          \/ r.error = r.body.error /\ ~Falsy(r.body.error) /\ r.existed = "?"
          \/ r.error = "no_code" /\ Falsy(r.body.code) /\ r.existed = "?"
          \/ r.error = "token_exchange_failed" /\ ~Falsy(r.body.code)

\* C15: every answered callback is the success response with the session
\* cookie or a 302 to the login page with invalid_state, the provider's
\* error, no_code or token_exchange_failed; a token exchange, an identity
\* token or a user upsert that fails ends the callback with the
\* token_exchange_failed redirect; and a callback only moves forward
\* through its steps, so that none is made twice
C15_CallbackOutcomes ==
    [][/\ (last.kind = "callback" => CallbackOutcome(last))'
       /\ \A r \in reqs :
              (r.kind = "callback" /\ r \notin reqs')
              => /\ StepOf(After(r.n).pc) > StepOf(r.pc)
                 /\ After(r.n).writes <= 1
                 /\ (dbFailed' /\ ~dbFailed)
                    => /\ After(r.n) = last'
                       /\ last'.status = 302
                       /\ last'.error = "token_exchange_failed"
      ]_vars

\* a callback whose user upsert threw was answered with the redirect
C15_Witness ==
    /\ last.kind = "callback"
    /\ last.status = 302
    /\ last.error = "token_exchange_failed"
    /\ last.existed = "no"
    /\ last.writes = 0
    /\ dbFailed

\* the session token's userId, username and email are the identity
\* token's sub, cognito:username and email
ClaimsOf(tok, idToken) ==
    /\ tok.form = "jwt"
    /\ tok.key = JWT_SECRET
    /\ tok.claims.userId = idToken.sub
    /\ tok.claims.username = idToken.username
    /\ tok.claims.email = idToken.email

\* C16: a callback takes its steps in the order state consumed, code
\* exchanged, user upserted, session signed: while it is with the provider
\* or the users table its state has left the store; it is past the upsert
\* only after one write, with the user record stored; and the session
\* cookie it sets carries the identity token's sub, cognito:username and
\* email, for a user whose record is in the users table
C16_UpsertBeforeSession ==
    /\ \A r \in Seen :
           r.kind = "callback"
           => /\ (r.pc \in {"exchange", "gotUser", "upserted"} \/ r.status = 200)
                 => /\ r.body.state \notin Pending
                    /\ passed[r.body.state] = 1
              /\ (r.pc = "upserted" \/ r.status = 200)
                 => /\ r.writes = 1
                    /\ r.loc.idToken.sub \in DOMAIN users
                    /\ r.post.cognito_id = r.loc.idToken.sub
              /\ r.pc \in {"exchange", "gotUser"} => r.writes = 0
              /\ r.status = 200
                 => /\ ClaimsOf(r.loc.cookie, r.loc.idToken)
                    /\ r.loc.cookie \in jar
    /\ \A tok \in jar : tok.claims.userId \in DOMAIN users

\* a first login was answered with a session cookie for the user record
\* it had just created
C16_Witness ==
    /\ last.kind = "callback"
    /\ last.status = 200
    /\ last.existed = "no"
    /\ last.loc.cookie.claims.userId = "u1"
    /\ users["u1"].user_id = last.post.user_id

\* C17: a callback that presents a state issued more than StateTTL ms
\* before it arrives is answered with the invalid_state redirect,
\* whatever requests came in between
C17_StateExpires ==
    [][(nreq' = nreq + 1 /\ After(nreq').kind = "callback")
       => LET r == After(nreq')
              store == stateStore[r.loc.instance]
          IN  (/\ r.body.state \in DOMAIN store
               /\ clock - store[r.body.state].timestamp > StateTTL)
              => /\ r = last'
                 /\ r.status = 302
                 /\ r.error = "invalid_state"
      ]_vars

-----------------------------------------------------------------------------
(* The login flow served by two processes of the auth lambda, each with    *)
(* its own pending-state map                                               *)

InitInstances ==
    /\ clock = 0
    /\ ticks = 0
    /\ venues = NoItem
    /\ songs = NoItem
    /\ issues = NoItem
    /\ artists = NoItem
    /\ memberships = NoItem
    /\ users = NoItem
    /\ jar = {}
    /\ stateStore = (1 :> NoItem) @@ (2 :> NoItem)
    /\ issuedBy = NoItem
    /\ reqs = {}
    /\ last = NoReq
    /\ nreq = 0
    /\ nextId = 1
    /\ dbFailed = FALSE
    /\ passed = NoItem

\* the login flow at either instance, with the time a pending state lives
\* passing
NextInstances ==
    \/ \E i \in Instances : handleGoogleAuth(EvNone, i)
    \/ \E q \in Queries, i \in Instances :
           handleOAuthCallback_state(EvNone, q, i)
    \/ \E r \in reqs, idToken \in IdTokens \cup {NoIdToken}, ok \in BOOLEAN :
           handleOAuthCallback_exchange(r, idToken, ok)
    \/ \E r \in reqs, ok \in BOOLEAN : createOrUpdateUser_write(r, ok)
    \/ \E r \in reqs : handleOAuthCallback_session(r)
    \/ Tick(StateTTL)

SpecInstances == InitInstances /\ [][NextInstances]_vars

\* state s, issued by another instance than i and never let through, is
\* still pending there and no older than StateTTL
PendingElsewhere(s, i) ==
    /\ s \in DOMAIN issuedBy
    /\ issuedBy[s] # i
    /\ passed[s] = 0
    /\ s \in DOMAIN stateStore[issuedBy[s]]
    /\ clock - stateStore[issuedBy[s]][s].timestamp <= StateTTL

\* C18: with two instances of the auth handler, a callback that arrives at
\* one instance with a never-used, unexpired state issued by the other is
\* answered with the invalid_state redirect and leaves the state pending
\* where it was issued; a callback gets past the state check only at the
\* instance that issued its state, and only such a callback is answered
\* with a session
C18_StatePerInstance ==
    [][/\ (nreq' = nreq + 1 /\ After(nreq').kind = "callback")
          => LET r == After(nreq')
                 s == r.body.state
                 i == r.loc.instance
             IN  /\ PendingElsewhere(s, i)
                    => /\ r = last'
                       /\ r.status = 302
                       /\ r.error = "invalid_state"
                       /\ r.writes = 0
                       /\ stateStore' = stateStore
                 /\ (r \in reqs' \/ r.error # "invalid_state")
                    => /\ s \in DOMAIN issuedBy
                       /\ issuedBy[s] = i
                       /\ passed'[s] = passed[s] + 1
       /\ (last'.kind = "callback" /\ last'.status = 200)
          => /\ last'.id \in DOMAIN passed'
             /\ passed'[last'.id] = 1
      ]_vars

\* a callback was refused at instance 2 with a state that instance 1 had
\* issued and still holds, unused and unexpired
C18_Witness ==
    /\ last.kind = "callback"
    /\ last.error = "invalid_state"
    /\ last.loc.instance = 2
    /\ PendingElsewhere(last.id, 2)
    /\ issuedBy[last.id] = 1

\* the callback numbered nreq' arrived in this step without a code
ArrivesWithoutCode ==
    /\ nreq' = nreq + 1
    /\ After(nreq').kind = "callback"
    /\ Falsy(After(nreq').body.code)

\* C19: a callback without an authorization code is answered at once with
\* a 302 redirect to the login page and writes nothing; the error is
\* invalid_state when its state is missing or not pending at the instance,
\* else the provider's error when the query carries one, else no_code, and
\* in the last two cases the state is consumed
C19_NoCodeRedirect ==
    [][ArrivesWithoutCode
       => LET r == After(nreq')
              q == r.body
              i == r.loc.instance
          IN  /\ r = last'
              /\ r.status = 302
              /\ r.writes = 0
              /\ users' = users
              /\ IF Falsy(q.state) \/ q.state \notin DOMAIN stateStore[i]
                 THEN /\ r.error = "invalid_state"
                      /\ stateStore' = stateStore
                 ELSE /\ r.error = (IF ~Falsy(q.error) THEN q.error
                                    ELSE "no_code")
                      /\ q.state \notin DOMAIN stateStore'[i]
      ]_vars

\* a callback with a pending state, no provider error and no code was
\* redirected with no_code
C19_Witness ==
    /\ last.kind = "callback"
    /\ last.status = 302
    /\ last.error = "no_code"
    /\ Falsy(last.body.code)
    /\ Falsy(last.body.error)
    /\ passed[last.id] = 1

\* C19 as stated: every callback without an authorization code is answered
\* with the no_code redirect
C19_AsStated ==
    [][ArrivesWithoutCode
       => /\ After(nreq') = last'
          /\ last'.status = 302
          /\ last'.error = "no_code"
      ]_vars

\* the handlers that answer with a redirect or a page, not with JSON
RedirectKinds == {"googleAuth", "callback"}

\* C20: when a data-store call made for a request of a handler that
\* answers with JSON fails, the request is answered with status 500 and
\* the error 'Internal server error', never with a 2xx
C20_StoreFailureIs500 ==
    [][(/\ dbFailed' /\ ~dbFailed
        /\ last' # last
        /\ last'.kind \notin RedirectKinds)
       => /\ last'.status = 500
          /\ last'.error = "Internal server error"
      ]_vars

-----------------------------------------------------------------------------
(* The session check of every handler that calls requireAuth, over events  *)
(* with each kind of token in each place a cookie can arrive               *)

\* no token value, a string that is no token, a token signed with another
\* secret, an expired one and a valid one
GuardTokens ==
    {EmptyToken, GarbageToken, ForgedToken, ExpiredToken, GoodToken("u1")}

\* the cookie in the list event.cookies, in the Cookie header, or nowhere
GuardEvents ==
    {[fmt |-> f, cookies |-> cs] :
        f \in {"v2", "hdr"},
        cs \in {<<>>} \cup {<<Cookie(tok)>> : tok \in GuardTokens}}

\* the arrival of a request at each handler that calls requireAuth, with
\* one body for each and a data store that answers, while no request is
\* in progress
NextGuard ==
    /\ reqs = {}
    /\ \E ev \in GuardEvents :
        \/ handleCreateIssue(ev, IssueBody("t", "d", "bug", "high", Undef,
                                           Undef), TRUE)
        \/ handleUpdateIssue_get(ev, 1, IssueBody(Undef, Undef, Undef, "low",
                                                  Undef, Undef), TRUE)
        \/ handleDeleteIssue_get(ev, 1, TRUE)
        \/ handleBatchUpdateIssues_start(
               ev, [issueIds |-> <<1>>, updates |-> ("status" :> "resolved")])
        \/ handleCreateArtist_artist(
               ev, [name |-> "band", bio |-> "b", memberDisplayName |-> Undef],
               TRUE)
        \/ handleAddMember_artist(
               ev, 1, [userId |-> "u2", role |-> Undef, displayName |-> Undef,
                       instrument |-> Undef], TRUE)
        \/ handleUpdateMembership_get(
               ev, 1, [role |-> Undef, displayName |-> "Bob",
                       instrument |-> Undef, status |-> Undef], TRUE)
        \/ handleDeleteMembership_get(ev, 1, TRUE)
        \/ handleGetArtistMembers_query(ev, 1, TRUE)
        \/ handleGetMyMemberships_query(ev, TRUE)
        \/ handleGetMe_get(ev, TRUE)
        \/ handleUpdateProfile_get(
               ev, [firstName |-> "Bob", lastName |-> Undef,
                    displayName |-> Undef, avatarUrl |-> Undef,
                    instrument |-> Undef, hometown |-> Undef], TRUE)
        \/ Tick(SessionTTL * 1000) /\ ev = EvNone

SpecGuard == Init /\ [][NextGuard]_vars

\* what the handler of request r gets from its lambda's requireAuth
AuthOf(r) ==
    IF r.kind = "createArtist" THEN requireAuthArtists(r.ev, clock)
    ELSE requireAuth(r.ev, clock)

\* the token of the event is absent, is no token, is signed with another
\* secret or has expired
TokenAbsent(ev) == SessionToken(ev).form \in {"none", "empty"}
TokenBad(ev) ==
    \/ SessionToken(ev).form = "garbage"
    \/ SessionToken(ev).key # JWT_SECRET
    \/ TokenExpired(SessionToken(ev), clock)

\* C21: for every event, requireAuth returns either the claims of the
\* event's token as the user or one of the errors 'Not authenticated' (no
\* token) and 'Invalid session' (a malformed, wrongly signed or expired
\* token), and the handler that called it answers either error with
\* status 401 and that error, before it reads or writes anything
C21_AuthRejectionIs401 ==
    [][nreq' = nreq + 1
       => LET r == After(nreq')
              a == AuthOf(r)
          IN  /\ \/ a = [error |-> "", user |-> SessionToken(r.ev).claims]
                 \/ a = [error |-> "Not authenticated", user |-> NoClaims]
                 \/ a = [error |-> "Invalid session", user |-> NoClaims]
              /\ (a.error = "Not authenticated") <=> TokenAbsent(r.ev)
              /\ (a.error = "Invalid session")
                 <=> (~TokenAbsent(r.ev) /\ TokenBad(r.ev))
              /\ a.error # ""
                 => /\ r = last'
                    /\ r.status = 401
                    /\ r.error = a.error
                    /\ r.writes = 0
                    /\ tables' = tables
                    /\ dbFailed' = dbFailed
              /\ a.error = "" => (r \in reqs' \/ r.status # 401)
      ]_vars

\* a request that brought an expired token in its Cookie header was
\* answered 401 'Invalid session'
C21_Witness ==
    /\ last.kind = "addMember"
    /\ last.ev.fmt = "hdr"
    /\ last.ev.cookies # <<>>
    /\ last.ev.cookies[1].value.form = "jwt"
    /\ last.ev.cookies[1].value.key = JWT_SECRET
    /\ last.status = 401
    /\ last.error = "Invalid session"

-----------------------------------------------------------------------------
(* The artists lambda on its own: artists are created with their owner     *)
(* membership, updated and deleted                                         *)

NextArtists ==
    \/ \E ev \in {EvNone, EvGood}, body \in ArtistBodies, ok \in BOOLEAN :
           handleCreateArtist_artist(ev, body, ok)
    \/ \E r \in reqs, ok \in BOOLEAN : handleCreateArtist_membership(r, ok)
    \/ \E ev \in {EvNone, EvGood}, id \in ClientIds, body \in ArtistBodies,
          ok \in BOOLEAN : handleUpdateArtist(ev, id, body, ok)
    \/ \E ev \in {EvNone, EvGood}, id \in ClientIds, ok \in BOOLEAN :
           handleDeleteArtist(ev, id, ok)

SpecArtists == Init /\ [][NextArtists]_vars

\* C22: a DELETE of an artist removes the artist record and nothing else:
\* the memberships table, with every membership of the deleted artist, and
\* every other table are as they were before the request
C22_DeleteArtistNoCascade ==
    [][(nreq' = nreq + 1 /\ After(nreq').kind = "deleteArtist")
       => LET r == After(nreq')
          IN  /\ r = last'
              /\ memberships' = memberships
              /\ \A k \in MembersOf(memberships, r.id) :
                     /\ k \in DOMAIN memberships'
                     /\ memberships'[k] = memberships[k]
              /\ <<venues, songs, issues, users>>'
                     = <<venues, songs, issues, users>>
              /\ \A a \in DOMAIN artists \ {r.id} :
                     a \in DOMAIN artists' /\ artists'[a] = artists[a]
              /\ DOMAIN artists' \subseteq DOMAIN artists
              /\ r.status = 204 => r.id \notin DOMAIN artists'
      ]_vars

\* a stored artist that had a membership was deleted, and the membership
\* is still stored
C22_Witness ==
    /\ last.kind = "deleteArtist"
    /\ last.status = 204
    /\ last.existed = "yes"
    /\ last.id \notin DOMAIN artists
    /\ MembersOf(memberships, last.id) # {}

-----------------------------------------------------------------------------
(* The venues lambda on its own, with its list, over a table that starts   *)
(* empty or with a record that has no coordinates and one created without  *)
(* a latitude                                                              *)

\* bodies with both coordinates, with one, with a zero and with none
VenueBodiesPlaced ==
    {[name |-> "a", latitude |-> la, longitude |-> lo, phone |-> Undef] :
        la \in {"51", "0", Undef}, lo \in {"-2", Undef}}

InitVenues ==
    /\ clock = 0
    /\ ticks = 0
    /\ \/ venues = NoItem /\ nextId = 1
       \/ /\ venues = (1 :> [id |-> 1, name |-> "old", created_at |-> "0",
                             updated_at |-> "0"])
                       @@ (2 :> [id |-> 2, name |-> "b", latitude |-> "0",
                                 longitude |-> "-2", phone |-> "",
                                 created_at |-> "0", updated_at |-> "0"])
          /\ nextId = 3
    /\ songs = NoItem
    /\ issues = NoItem
    /\ artists = NoItem
    /\ memberships = NoItem
    /\ users = NoItem
    /\ stateStore = (1 :> NoItem)
    /\ issuedBy = NoItem
    /\ reqs = {}
    /\ last = NoReq
    /\ nreq = 0
    /\ dbFailed = FALSE
    /\ passed = NoItem
    /\ jar = {}

NextVenues ==
    \E ok \in BOOLEAN :
        \/ \E body \in VenueBodiesPlaced : handleCreateVenue(EvNone, body, ok)
        \/ \E id \in ClientIds, body \in VenueBodiesPlaced :
               handleUpdateVenue(EvNone, id, body, ok)
        \/ \E id \in ClientIds : handleDeleteVenue(EvNone, id, ok)
        \/ handleGetAllVenues(EvNone, ok)

SpecVenues == InitVenues /\ [][NextVenues]_vars

\* the coordinate is stored and is not zero
Placed(venue, c) == c \in DOMAIN venue /\ venue[c] \notin {Null, "0"}

\* C23: the list GET /api/venues answers with has one entry for each
\* stored venue whose latitude and longitude are both present and not
\* zero, with that venue's id, name and coordinates, and no other entry
C23_ListHasPlacedVenues ==
    (last.kind = "getAllVenues" /\ last.status = 200)
    => /\ {e.id : e \in last.loc.venues}
              = {k \in DOMAIN venues : /\ Placed(venues[k], "latitude")
                                       /\ Placed(venues[k], "longitude")}
       /\ \A e \in last.loc.venues :
              /\ e.name = Attr(venues[e.id], "name")
              /\ e.location = [lat |-> venues[e.id].latitude,
                               lng |-> venues[e.id].longitude]
       /\ Cardinality(last.loc.venues)
              = Cardinality({e.id : e \in last.loc.venues})

\* a list was answered that has a venue and leaves out a stored venue
\* whose latitude is zero and one that has no coordinates
C23_Witness ==
    /\ last.kind = "getAllVenues"
    /\ last.status = 200
    /\ last.loc.venues # {}
    /\ \E k \in DOMAIN venues : "latitude" \notin DOMAIN venues[k]
    /\ \E k \in DOMAIN venues : /\ HasAttr(venues[k], "latitude", "0")
                                /\ HasAttr(venues[k], "longitude", "-2")

\* C24: every record stored in the issues table has a type, a priority
\* and a status from its allow-list
C24_StoredIssuesValid ==
    \A k \in DOMAIN issues :
        /\ Attr(issues[k], "type") \in validTypes
        /\ Attr(issues[k], "priority") \in validPriorities
        /\ Attr(issues[k], "status") \in validStatuses

-----------------------------------------------------------------------------
(* Members joining a stored artist while artists are created                *)

\* the state after user u1 created artist 1 and its owner membership was
\* deleted again
InitJoin ==
    /\ clock = 0
    /\ ticks = 0
    /\ venues = NoItem
    /\ songs = NoItem
    /\ issues = NoItem
    /\ users = ("u1" :> NewUserItem(EarlierIdToken, 0, "0"))
    /\ artists = (1 :> [id |-> 1, name |-> "band", owner_user_id |-> "u1",
                        bio |-> "", member_count |-> 0,
                        created_at |-> "0", updated_at |-> "0"])
    /\ memberships = NoItem
    /\ stateStore = (1 :> NoItem)
    /\ issuedBy = NoItem
    /\ reqs = {}
    /\ last = NoReq
    /\ nreq = 0
    /\ nextId = 2
    /\ dbFailed = FALSE
    /\ passed = NoItem
    /\ jar = {}

NextJoin ==
    \E ok \in BOOLEAN :
        \/ \E body \in ArtistBodies : handleCreateArtist_artist(EvGood, body, ok)
        \/ \E r \in reqs : handleCreateArtist_membership(r, ok)
        \/ \E id \in ClientIds, body \in AddMemberBodies :
               handleAddMember_artist(EvGood, id, body, ok)
        \/ \E r \in reqs : handleAddMember_query(r, ok)
        \/ \E r \in reqs : handleAddMember_put(r, ok)
        \/ \E r \in reqs : handleAddMember_count(r, ok)
        \/ \E r \in reqs : handleAddMember_resolve(r, ok)

SpecJoin == InitJoin /\ [][NextJoin]_vars

\* C25: the memberships table holds at most one membership for each pair
\* of a user and an artist
C25_OneMembershipPerPair ==
    \A j, k \in DOMAIN memberships :
        (/\ Attr(memberships[j], "user_id") = Attr(memberships[k], "user_id")
         /\ Attr(memberships[j], "artist_id")
                = Attr(memberships[k], "artist_id"))
        => j = k

\* the step is the update or put that createOrUpdateUser makes for the
\* login r
LoginWrites(r) ==
    /\ r.kind = "callback"
    /\ r.pc = "gotUser"
    /\ r \notin reqs'
    /\ \E w \in reqs' : w.n = r.n /\ w.pc = "upserted"

\* C26: the update a login makes for an existing user leaves first_name,
\* last_name and avatar_url as stored wherever a profile update has set
\* the field to a value since the login read the record
C26_LoginKeepsProfileUpdate ==
    [][\A r \in reqs :
          (LoginWrites(r) /\ r.existed = "yes")
          => LET u == r.loc.idToken.sub
             IN  \A f \in {"first_name", "last_name", "avatar_url"} :
                     (/\ u \in DOMAIN users
                      /\ Attr(users[u], f) # Attr(r.loc.read, f)
                      /\ Attr(users[u], f) \notin {Null, Undef})
                     => Attr(users'[u], f) = Attr(users[u], f)
      ]_vars

-----------------------------------------------------------------------------
(* Two logins of one identity that has no user record yet, each with a     *)
(* state that GET /auth/google issued earlier, and the profile update      *)

InitFirstLogins ==
    /\ clock = 0
    /\ ticks = 0
    /\ venues = NoItem
    /\ songs = NoItem
    /\ issues = NoItem
    /\ artists = NoItem
    /\ memberships = NoItem
    /\ users = NoItem
    /\ jar = {}
    /\ stateStore = (1 :> [s \in {"a", "b"} |-> [timestamp |-> 0]])
    /\ issuedBy = [s \in {"a", "b"} |-> 1]
    /\ passed = [s \in {"a", "b"} |-> 0]
    /\ reqs = {}
    /\ last = NoReq
    /\ nreq = 0
    /\ nextId = 2
    /\ dbFailed = FALSE

NextFirstLogins ==
    \/ \E s \in Pending, i \in Instances :
           handleOAuthCallback_state(
               EvNone, [code |-> "code", state |-> s, error |-> Undef], i)
    \/ \E r \in reqs, idToken \in IdTokens, ok \in BOOLEAN :
           handleOAuthCallback_exchange(r, idToken, ok)
    \/ \E r \in reqs, ok \in BOOLEAN : createOrUpdateUser_write(r, ok)
    \/ \E r \in reqs : handleOAuthCallback_session(r)
    \/ \E tok \in jar, body \in ProfileBodies, ok \in BOOLEAN :
           handleUpdateProfile_get(
               [fmt |-> "v2", cookies |-> <<Cookie(tok)>>], body, ok)
    \/ \E r \in reqs, ok \in BOOLEAN : handleUpdateProfile_update(r, ok)
    \/ Tick(1)

SpecFirstLogins == InitFirstLogins /\ [][NextFirstLogins]_vars

\* C27: a stored user record stays stored and keeps its user_id and its
\* created_at
C27_UserIdentityStable ==
    [][\A u \in DOMAIN users :
          /\ u \in DOMAIN users'
          /\ Attr(users'[u], "user_id") = Attr(users[u], "user_id")
          /\ Attr(users'[u], "created_at") = Attr(users[u], "created_at")
      ]_vars

-----------------------------------------------------------------------------
(* Members joining and leaving an artist that is deleted meanwhile         *)

NextLeave ==
    \E ok \in BOOLEAN :
        \/ \E id \in ClientIds : handleDeleteArtist(EvGood, id, ok)
        \/ \E id \in ClientIds, body \in AddMemberBodies :
               handleAddMember_artist(EvGood, id, body, ok)
        \/ \E r \in reqs : handleAddMember_query(r, ok)
        \/ \E r \in reqs : handleAddMember_put(r, ok)
        \/ \E r \in reqs : handleAddMember_count(r, ok)
        \/ \E r \in reqs : handleAddMember_resolve(r, ok)
        \/ \E id \in ClientIds : handleDeleteMembership_get(EvGood, id, ok)
        \/ \E r \in reqs : handleDeleteMembership_delete(r, ok)
        \/ \E r \in reqs : handleDeleteMembership_count(r, ok)

SpecLeave == InitProfile /\ [][NextLeave]_vars

\* the artist creation that puts the artist record a in this step
CreatesArtist(a) ==
    \E r \in reqs' \ reqs :
        /\ r.kind = "createArtist"
        /\ r.pc = "artistPut"
        /\ r.id = a

\* C28: an id enters the artists table only in the step in which an artist
\* creation puts its record, and every stored artist record has a name,
\* an owner_user_id and a created_at
C28_ArtistsOnlyCreated ==
    [][/\ \A a \in DOMAIN artists' \ DOMAIN artists : CreatesArtist(a)
       /\ \A a \in DOMAIN artists' :
              {"name", "owner_user_id", "created_at"} \subseteq
                  DOMAIN artists'[a]
      ]_vars

-----------------------------------------------------------------------------
(* Logins and profile updates one after the other, over profiles that      *)
(* give all three names or leave the first name out                        *)

ProfileBodiesNamed ==
    {[firstName |-> f, lastName |-> "B", displayName |-> "Bobby",
      avatarUrl |-> Undef, instrument |-> Undef, hometown |-> Undef] :
        f \in {"Bob", Undef}}

\* a request arrives once the one before it is answered
NextCompletion ==
    \/ /\ reqs = {}
       /\ \/ \E i \in Instances : handleGoogleAuth(EvNone, i)
          \/ \E s \in Pending, i \in Instances :
                 handleOAuthCallback_state(
                     EvNone, [code |-> "code", state |-> s, error |-> Undef], i)
          \/ \E tok \in jar, body \in ProfileBodiesNamed, ok \in BOOLEAN :
                 handleUpdateProfile_get(
                     [fmt |-> "v2", cookies |-> <<Cookie(tok)>>], body, ok)
    \/ \E r \in reqs, idToken \in IdTokens, ok \in BOOLEAN :
           handleOAuthCallback_exchange(r, idToken, ok)
    \/ \E r \in reqs, ok \in BOOLEAN : createOrUpdateUser_write(r, ok)
    \/ \E r \in reqs : handleOAuthCallback_session(r)
    \/ \E r \in reqs, ok \in BOOLEAN : handleUpdateProfile_update(r, ok)

SpecCompletion == InitAuth /\ [][NextCompletion]_vars

\* C29: a stored user record has profile_complete = true exactly when its
\* first_name, last_name and display_name are all non-null
C29_CompleteIffNamed ==
    \A u \in DOMAIN users :
        (Attr(users[u], "profile_complete") = TRUE)
        <=> \A f \in {"first_name", "last_name", "display_name"} :
                Attr(users[u], f) \notin {Null, Undef}

-----------------------------------------------------------------------------
(* Logouts among session checks and pending logins, with the time a        *)
(* session lives passing                                                   *)

NextLogout ==
    \/ \E i \in Instances : handleGoogleAuth(EvNone, i)
    \/ \E ev \in AuthEvents : handleLogout(ev)
    \/ \E ev \in AuthEvents, ok \in BOOLEAN : handleGetMe_get(ev, ok)
    \/ \E r \in reqs, ok \in BOOLEAN : handleGetMe_respond(r, ok)
    \/ \E ev \in AuthEvents, ok \in BOOLEAN :
           handleUpdateProfile_get(
               ev, [firstName |-> "Bob", lastName |-> Undef,
                    displayName |-> Undef, avatarUrl |-> Undef,
                    instrument |-> Undef, hometown |-> Undef], ok)
    \/ \E r \in reqs, ok \in BOOLEAN : handleUpdateProfile_update(r, ok)
    \/ Tick(SessionTTL * 1000)

SpecLogout == InitAuth /\ [][NextLogout]_vars

\* the request that arrives in this step brings the event of the logout
\* answered just before it
ArrivesAfterLogout ==
    /\ last.kind = "logout"
    /\ nreq' = nreq + 1
    /\ After(nreq').kind \in {"getMe", "updateProfile"}
    /\ After(nreq').ev = last.ev

\* C30: a logout is answered 200 with a bndy_session cookie of Max-Age 0
\* and changes no table, no pending-state map and no request in progress;
\* and a request that brings the logged-out session token afterwards is
\* accepted as long as the token verifies, and refused 401 only once it
\* has expired
C30_LogoutStateless ==
    [][/\ (nreq' = nreq + 1 /\ After(nreq').kind = "logout")
          => /\ last'.status = 200
             /\ last'.loc.setCookie.maxAge = 0
             /\ last'.loc.setCookie.value = EmptyToken
             /\ tables' = tables
             /\ authState' = authState
             /\ reqs' = reqs
             /\ (last'.authed <=>
                     (requireAuth(last'.ev, clock').error = ""))
       /\ ArrivesAfterLogout
          => LET r == After(nreq')
                 tok == SessionToken(r.ev)
             IN  /\ (last.authed /\ ~TokenExpired(tok, clock))
                    => (r \in reqs' \/ r.status # 401)
                 /\ (r = last' /\ r.status = 401 /\ tok.form = "jwt"
                        /\ tok.key = JWT_SECRET)
                    => TokenExpired(tok, clock)
      ]_vars

\* a logout with a session token that was accepted when it arrived has
\* been answered while a login was pending, and the token is accepted
\* still
C30_Witness ==
    /\ last.kind = "logout"
    /\ last.authed
    /\ requireAuth(last.ev, clock).error = ""
    /\ Pending # {}
    /\ "u1" \in DOMAIN users

=============================================================================
